---- MODULE Spec2Model ----
(***************************************************************************)
(* arcvision: the Controller state machine (controller.py), the Processor  *)
(* framework's offload sub-protocol, the Tracker Processor and the Line    *)
(* Detection Processor (processor.py), as state machines.                  *)
(*                                                                         *)
(*   Spec         Controller: handle_start, update_settings, update_loop   *)
(*   SpecOffload  Processor offload sub-protocol: owner tasks, worker,     *)
(*                lock and pipe, close()                                   *)
(*   SpecTracker  Tracker Processor of a Detection Processor: track(),     *)
(*                process_frame, and the Controller publishing the scene   *)
(*   SpecLines    Line Detection Processor: detect_adjust_lines rounds     *)
(*   SpecConnect  Tracker Processor with its line detector: track(),       *)
(*                process_frame with _connect_objects, detection rounds    *)
(***************************************************************************)
EXTENDS Integers, Sequences, FiniteSets, TLC

(***************************************************************************)
(* Bounds of the model                                                     *)
(***************************************************************************)
MaxTicks == 4          \* successful main-loop iterations explored
MaxFrameInd == 4       \* frames the capture source delivers
MaxCalls == 3          \* update_settings calls explored after start-up
MaxReq == 3            \* _queue_work calls explored on one processor
MaxTrackerTicks == 6   \* TrackerProcessor.process_frame calls explored
MaxTrackCalls == 2     \* TrackerProcessor.track calls explored
MaxRounds == 7         \* LineDetectionProcessor.detect_adjust_lines rounds explored
MaxConnRounds == 2     \* detection rounds explored next to a tracker
MaxConnTicks == 3      \* process_frame calls explored next to a line detector
MaxBgFrames == 4       \* BackgroundProcessor.process_frame calls explored
MaxRefits == 4           \* calibration rounds of SpatialCalibrationProcessor explored
MaxCalCalls == 3         \* play(), pause() and reset() calls on it
MaxDfFrames == 3         \* DarkflowDetectionProcessor.process_frame calls explored
MaxDetFrames == 3        \* DetectionProcessor.process_frame calls explored
MaxDialTicks == 3        \* DialProcessor.process_frame calls explored

(***************************************************************************)
(* Values                                                                  *)
(***************************************************************************)
None == -1                       \* Python's None where a pixel value or count is expected
Pixels == {0, 2}                 \* one-pixel frames: the value of that pixel
NoKey == "<absent>"              \* a key that is not in the settings dictionary
modes == {"background", "detection", "training"}          \* Controller.modes
ModeInputs == modes \cup {"bogus", NoKey}                 \* settings['mode'] as sent by a client
PauseInputs == {"True", "False", NoKey}                   \* settings['pause'] as sent by a client

VARIABLES
    started,            \* handle_start has run (self.cam exists, the main loop runs)
    settings,           \* Controller.settings: [mode, pause]
    processors,         \* Controller.processors: sequence of processor handles
    frame_processors,   \* Camera.frame_processors: sequence of processor handles
    background,         \* Controller.background: None or a background image
    bgp,                \* state of each live BackgroundProcessor, by handle id
    vision_state,       \* Controller.vision_state: the ReactorSystem message being built
    published,          \* messages sent on 'vision-update', in order
    frame_ind,          \* number of frames the camera has delivered
    cam_updates,        \* number of calls of Camera.update
    next_pid,           \* next fresh processor handle id
    ncalls,             \* update_settings calls made after start-up
    call,               \* the operation the last step performed, with its inputs and outcome
    \* ---- offload sub-protocol of one Processor with has_consumer=True ----
    lock,               \* value of the semaphore behind self._lock: 1 free, 0 taken
    holder,             \* who took the lock last and has not seen it released
    o2w,                \* pipe, owner end to worker end: messages sent and not yet read
    w2o,                \* pipe, worker end to owner end
    tasks,              \* the _await_work tasks created by _queue_work, by number
    running,            \* what the owner's event loop is executing: 0 nothing, k task k, InClose
    wpc,                \* where the worker process is in _consume_work
    wcur,               \* the request the worker is working on
    finished,           \* requests the worker has processed and released the lock for
    handled,            \* results handed to _receive_result, in order
    close_pc,           \* progress of close()
    \* ---- TrackerProcessor ----
    tracking,           \* TrackerProcessor._tracking: sequence of tracked objects
    ticks,              \* TrackerProcessor.ticks
    prev_gray,          \* TrackerProcessor.prev_gray is not None
    do_tracking,        \* TrackerProcessor.do_tracking
    ticks_per_obs,      \* TrackerProcessor.ticks_per_obs, in half ticks
    removed,            \* the objects process_frame deleted, as they were when deleted
    ntrack,             \* track() calls made
    connections,        \* what _connect_objects established in the last tick, in order
    tcall,              \* the tracker operation the last step performed, with its result
    \* ---- LineDetectionProcessor ----
    lines,              \* LineDetectionProcessor._lines: the confirmed lines
    stagedLines,        \* LineDetectionProcessor._stagedLines
    rounds,             \* detect_adjust_lines rounds completed
    dropped,            \* lines that left the detector: how and when
    \* ---- BackgroundProcessor on its own ----
    bg,                 \* the BackgroundProcessor: [count, avg_background, paused, background]
    bhist,              \* the frames it was given since its construction or last reset()
    bcall,              \* the operation the last step performed on it
    \* ---- SpatialCalibrationProcessor ----
    cal,                \* the processor's fields
    cfile,              \* content of PICKLE_FILE: the entry of each resolution key in it
    cframe,             \* frame_ind of the next process_frame call, modulo stay+delay
    chist,              \* the refits since the last reset(): how many, their lowest fit
    ccall,              \* the operation the last step performed, and what it did
    \* ---- utils ----
    icall,              \* the last call of utils.intersecting: arguments and result
    imagedb,            \* utils.ImageDB: its images, and the pickle files of template_dir
    dbcall,             \* the last call on the ImageDB
    darkflow,           \* DarkflowDetectionProcessor: id_i and the objects it created
    dfcall,             \* the last call on the DarkflowDetectionProcessor
    detector,           \* DetectionProcessor: _ready, features and the passes in progress
    dcall,              \* the last step of the DetectionProcessor
    dial,               \* DialProcessor: temperatureHandler and _objects
    dlcall              \* the last call on the DialProcessor

ctlVars == <<started, settings, processors, frame_processors, background, bgp,
             vision_state, published, frame_ind, cam_updates, next_pid, ncalls, call>>

offVars == <<lock, holder, o2w, w2o, tasks, running, wpc, wcur, finished, handled,
             close_pc>>

trkVars == <<tracking, ticks, prev_gray, do_tracking, ticks_per_obs, removed, ntrack,
             connections, tcall>>

linVars == <<lines, stagedLines, rounds, dropped>>

bgVars == <<bg, bhist, bcall>>

calVars == <<cal, cfile, cframe, chist, ccall>>

utlVars == <<icall>>

dbVars == <<imagedb, dbcall>>

dfVars == <<darkflow, dfcall>>

detVars == <<detector, dcall>>

dialVars == <<dial, dlcall>>

\* the processors and functions that are specified on their own
prcVars == <<bgVars, calVars, utlVars, dbVars, dfVars, detVars, dialVars>>

vars == <<ctlVars, offVars, trkVars, linVars, prcVars>>

\* what a step of the controller, of the offload sub-protocol, of the tracker,
\* of the line detector leaves alone
CtlFrame == UNCHANGED <<offVars, trkVars, linVars, prcVars>>

OffFrame == UNCHANGED <<ctlVars, trkVars, linVars, prcVars>>

TrkFrame == UNCHANGED <<ctlVars, offVars, linVars, prcVars>>

LinFrame == UNCHANGED <<ctlVars, offVars, trkVars, prcVars>>

\* what a step of one of the other processors or functions leaves alone
BaseFrame == UNCHANGED <<ctlVars, offVars, trkVars, linVars>>

BgFrame == BaseFrame /\ UNCHANGED <<calVars, utlVars, dbVars, dfVars, detVars, dialVars>>

CalFrame == BaseFrame /\ UNCHANGED <<bgVars, utlVars, dbVars, dfVars, detVars, dialVars>>

UtlFrame == BaseFrame /\ UNCHANGED <<bgVars, calVars, dbVars, dfVars, detVars, dialVars>>

DbFrame == BaseFrame /\ UNCHANGED <<bgVars, calVars, utlVars, dfVars, detVars, dialVars>>

\* what a step of a detection processor or of the dial reader leaves alone:
\* such a step acts on the tracker as well
DfFrame ==
    UNCHANGED <<ctlVars, offVars, linVars, bgVars, calVars, utlVars, dbVars, detVars, dialVars>>

DetFrame ==
    UNCHANGED <<ctlVars, offVars, linVars, bgVars, calVars, utlVars, dbVars, dfVars, dialVars>>

DialFrame ==
    UNCHANGED <<ctlVars, offVars, linVars, bgVars, calVars, utlVars, dbVars, dfVars, detVars>>

(***************************************************************************)
(* Sequence helpers                                                        *)
(***************************************************************************)
Range(s) == {s[i] : i \in 1..Len(s)}

RECURSIVE SeqRemoveIds(_, _)
\* the sequence s without the handles whose id is in ids
SeqRemoveIds(s, ids) ==
    IF s = <<>> THEN <<>>
    ELSE IF Head(s).id \in ids THEN SeqRemoveIds(Tail(s), ids)
         ELSE <<Head(s)>> \o SeqRemoveIds(Tail(s), ids)

(***************************************************************************)
(* Camera (camera.py is not part of the sources: modelled from spec 4.16   *)
(* and 4.3: registration appends to the active processor list,            *)
(* deregistration removes the processor from it)                           *)
(***************************************************************************)
Handle(id, cls, owner) == [id |-> id, cls |-> cls, owner |-> owner]

add_frame_processor(fp, p) == Append(fp, p)

remove_frame_processor(fp, id) == SeqRemoveIds(fp, {id})

(***************************************************************************)
(* BackgroundProcessor (processor.py 370-407).  Frames have one pixel of   *)
(* dtype uint8.  avg_background has dtype uint32 (line 395): its value is  *)
(* kept as <<high, low>>, two 16-bit halves, and += wraps at 2^32 as       *)
(* numpy's does.                                                           *)
(***************************************************************************)
NoArray == <<>>                  \* Python's None where an array is expected
Word == 65536                    \* 2^16

\* numpy: a uint32 plus a uint8, modulo 2^32
Add32(a, f) ==
    LET low == a[2] + f
    IN  <<(a[1] + (low \div Word)) % Word, low % Word>>

\* bit i (31 the highest) of the uint32 a
Bit32(a, i) == IF i >= 16 THEN (a[1] \div (2 ^ (i - 16))) % 2 ELSE (a[2] \div (2 ^ i)) % 2

\* numpy: a // c for a uint32 a and c >= 1, by long division from bit i
\* down, with the quotient q and the remainder r so far
RECURSIVE FloorDiv32(_, _, _, _, _)
FloorDiv32(a, c, i, q, r) ==
    IF i < 0 THEN q
    ELSE LET r2 == 2 * r + Bit32(a, i)
         IN  IF r2 >= c THEN FloorDiv32(a, c, i - 1, 2 * q + 1, r2 - c)
                        ELSE FloorDiv32(a, c, i - 1, 2 * q, r2)

\* line 403-404: (avg_background // max(1, count)).astype(np.uint8)
Mean(avg, count) == FloorDiv32(avg, IF count > 1 THEN count ELSE 1, 31, 0, 0) % 256

\* __init__: reset(), pause(), then _background = background (None by default)
BackgroundProcessor_init_unpaused ==
    [count |-> 0, avg_background |-> NoArray, paused |-> FALSE, background |-> None]

BackgroundProcessor_init ==
    [count |-> 0, avg_background |-> NoArray, paused |-> TRUE, background |-> None]

\* process_frame on a one-pixel frame of value f
BackgroundProcessor_process_frame_alwaysFolds(s, f) ==
    LET s1 == IF s.avg_background = NoArray
              THEN [s EXCEPT !.avg_background = <<0, 0>>, !.background = f]
              ELSE s
    IN  [s1 EXCEPT !.avg_background = Add32(s1.avg_background, f),
                   !.count = s1.count + 1,
                   !.background = Mean(Add32(s1.avg_background, f), s1.count + 1)]

BackgroundProcessor_process_frame(s, f) ==
    LET s1 == IF s.avg_background = NoArray
              THEN [s EXCEPT !.avg_background = <<0, 0>>, !.background = f]
              ELSE s
    IN  IF ~s1.paused
        THEN [s1 EXCEPT !.avg_background = Add32(s1.avg_background, f),
                        !.count = s1.count + 1,
                        !.background = Mean(Add32(s1.avg_background, f), s1.count + 1)]
        ELSE s1

\* pause(), play(), reset() (line 383-390)
BackgroundProcessor_pause(s) == [s EXCEPT !.paused = TRUE]

BackgroundProcessor_play(s) == [s EXCEPT !.paused = FALSE]

BackgroundProcessor_reset(s) ==
    [s EXCEPT !.count = 0, !.avg_background = NoArray, !.paused = FALSE]

(***************************************************************************)
(* Processor.close and the close() overrides (processor.py 45-50, 467-470, *)
(* 1096-1099, 1537-1542): the handles a close() call deregisters.          *)
(* DetectionProcessor.close closes itself, its segmenter and its tracker;  *)
(* TrackerProcessor.close closes itself and its dial reader.  Nothing      *)
(* closes the tracker's LineDetectionProcessor.                            *)
(***************************************************************************)
ClosedBy(fp, p) ==
    IF p.cls = "DetectionProcessor"
    THEN {p.id} \cup {q.id : q \in {r \in Range(fp) : r.owner = p.id
                                     /\ r.cls \in {"SegmentProcessor", "TrackerProcessor",
                                                   "DialProcessor"}}}
    ELSE {p.id}

RECURSIVE CloseAll(_, _)
\* [x.close() for x in self.processors]
CloseAll(fp, ps) ==
    IF ps = <<>> THEN fp
    ELSE CloseAll(SeqRemoveIds(fp, ClosedBy(fp, Head(ps))), Tail(ps))

(***************************************************************************)
(* DetectionProcessor.__init__ (processor.py 1043-1060, 428-465): the      *)
(* registrations it makes, in order: tracker, line detector, dial reader,  *)
(* segmenter, the detection processor itself.  id is the handle of the     *)
(* detection processor; the composed processors get the next four ids.     *)
(***************************************************************************)
DetectionProcessor_register(fp, id) ==
    fp \o << Handle(id + 1, "TrackerProcessor", id),
             Handle(id + 2, "LineDetectionProcessor", id),
             Handle(id + 3, "DialProcessor", id),
             Handle(id + 4, "SegmentProcessor", id),
             Handle(id, "DetectionProcessor", id) >>

(***************************************************************************)
(* Controller (controller.py)                                              *)
(***************************************************************************)
\* BackgroundProcessor defines the property 'background' and no method
\* get_background: the call at controller.py:75 raises AttributeError for the
\* first BackgroundProcessor the loop meets, before anything is closed.
reset_raises(ps) == \E i \in 1..Len(ps) : ps[i].cls = "BackgroundProcessor"

\* _reset_processors, when it does not raise: the camera's list after every
\* owned processor was closed (self.processors becomes [])
reset_processors(fp, ps) == CloseAll(fp, ps)

\* line 105-116: the mode stored by update_settings
NewMode_keepsInvalid(cur, mode) == mode

NewMode(cur, mode) ==
    IF mode \in {"detection", "background"} THEN mode ELSE cur

\* line 118-119
NewPause(cur, pause) ==
    IF pause = NoKey THEN cur ELSE (pause = "True")

\* line 127: 'not self.settings['pause']', the condition under which
\* cam.update() is evaluated at all
Advances_ignoresPause(pause) == TRUE

Advances(pause) == ~pause

Call(op, mode, pause, raised, cam_ok) ==
    [op |-> op, mode |-> mode, pause |-> pause, raised |-> raised, cam_ok |-> cam_ok]

\* the body of update_settings(in), in = [mode, pause], on a camera whose
\* processor list is fp
update_settings(fp, in) ==
    IF in.mode \in {"detection", "background"} /\ reset_raises(processors)
    THEN \* AttributeError leaves update_settings before any assignment
         /\ call' = Call("update_settings", in.mode, in.pause, TRUE, FALSE)
         /\ frame_processors' = fp
         /\ UNCHANGED <<settings, processors, background, bgp, next_pid>>
    ELSE IF in.mode = "detection" /\ background = None
    THEN \* _start_detection: TrackerProcessor.__init__ registers the tracker and
         \* then reads background.shape (processor.py:442) of None: AttributeError
         /\ call' = Call("update_settings", in.mode, in.pause, TRUE, FALSE)
         /\ processors' = <<>>
         /\ frame_processors' =
                add_frame_processor(reset_processors(fp, processors),
                                    Handle(next_pid + 1, "TrackerProcessor", next_pid))
         /\ bgp' = [i \in DOMAIN bgp \cap {p.id : p \in Range(frame_processors')}
                       |-> bgp[i]]
         /\ next_pid' = next_pid + 5
         /\ UNCHANGED <<settings, background>>
    ELSE /\ call' = Call("update_settings", in.mode, in.pause, FALSE, FALSE)
         /\ settings' = [mode |-> IF in.mode = NoKey THEN settings.mode
                                  ELSE NewMode(settings.mode, in.mode),
                         pause |-> NewPause(settings.pause, in.pause)]
         /\ IF in.mode = "detection"
            THEN /\ processors' = <<Handle(next_pid, "DetectionProcessor", next_pid)>>
                 /\ frame_processors' =
                        DetectionProcessor_register(reset_processors(fp, processors),
                                                    next_pid)
                 /\ bgp' = [i \in DOMAIN bgp \cap {p.id : p \in Range(frame_processors')}
                               |-> bgp[i]]
                 /\ next_pid' = next_pid + 5
            ELSE IF in.mode = "background"
            THEN /\ processors' = <<Handle(next_pid, "BackgroundProcessor", next_pid)>>
                 /\ frame_processors' =
                        add_frame_processor(reset_processors(fp, processors),
                                            Handle(next_pid, "BackgroundProcessor", next_pid))
                 /\ bgp' = [i \in (DOMAIN bgp \cap {p.id : p \in Range(frame_processors')})
                                    \cup {next_pid}
                               |-> IF i = next_pid THEN BackgroundProcessor_init ELSE bgp[i]]
                 /\ next_pid' = next_pid + 1
            ELSE /\ frame_processors' = fp
                 /\ UNCHANGED <<processors, bgp, next_pid>>
         /\ UNCHANGED background

\* handle_start: creates the camera, optionally installs the crop processor,
\* applies the initial settings (update_settings(self.settings))
HandleStart(crop) ==
    /\ CtlFrame
    /\ ~started
    /\ started' = TRUE
    /\ update_settings(IF crop THEN <<Handle(0, "CropProcessor", 0)>> ELSE <<>>,
                       [mode |-> settings.mode,
                        pause |-> IF settings.pause THEN "True" ELSE "False"])
    /\ UNCHANGED <<vision_state, published, frame_ind, cam_updates, ncalls>>

\* a client (the server's settings endpoint) calls update_settings
UpdateSettings(in) ==
    /\ CtlFrame
    /\ started
    /\ ncalls < MaxCalls
    /\ ncalls' = ncalls + 1
    /\ update_settings(frame_processors, in)
    /\ UNCHANGED <<started, vision_state, published, frame_ind, cam_updates>>

\* the message update_loop serialises: update_state fills in nothing but time
\* (controller.py:129 '#TODO: Insert update code here')
StateMessage(vs) == [time |-> vs.time, objects |-> <<>>]

\* one iteration of the main loop that starts with settings.pause true:
\* cam.update() is not evaluated, the loop yields with asyncio.sleep(0)
UpdateLoopPaused ==
    /\ CtlFrame
    /\ started
    /\ ~Advances(settings.pause)
    /\ call' = Call("update_loop", NoKey, "True", FALSE, FALSE)
    /\ UNCHANGED <<started, settings, processors, frame_processors, background, bgp,
                   vision_state, published, frame_ind, cam_updates, next_pid, ncalls>>

\* one iteration, not paused, in which Camera.update() has no frame
UpdateLoopNoFrame ==
    /\ CtlFrame
    /\ started
    /\ Advances(settings.pause)
    /\ cam_updates < MaxFrameInd + MaxTicks
    /\ cam_updates' = cam_updates + 1
    /\ call' = Call("update_loop", NoKey, "False", FALSE, FALSE)
    /\ UNCHANGED <<started, settings, processors, frame_processors, background, bgp,
                   vision_state, published, frame_ind, next_pid, ncalls>>

\* the time stamp update_state writes (controller.py:130)
NextTime_skips(t) == t + 2

NextTime(t) == t + 1

\* one iteration, not paused, in which Camera.update() delivers frame f and
\* runs it through the registered processors; the state is published
UpdateLoopFrame(f) ==
    /\ CtlFrame
    /\ started
    /\ Advances(settings.pause)
    /\ vision_state.time < MaxTicks
    /\ frame_ind < MaxFrameInd
    /\ cam_updates' = cam_updates + 1
    /\ frame_ind' = frame_ind + 1
    /\ bgp' = [i \in DOMAIN bgp |-> BackgroundProcessor_process_frame(bgp[i], f)]
    /\ vision_state' = [vision_state EXCEPT !.time = NextTime(vision_state.time)]
    /\ published' = Append(published, StateMessage(vision_state'))
    /\ call' = Call("update_loop", NoKey, "False", FALSE, TRUE)
    /\ UNCHANGED <<started, settings, processors, frame_processors, background,
                   next_pid, ncalls>>

\* the offload sub-protocol of a processor constructed with has_consumer=False:
\* no pipe, no lock, no worker
NoOffload ==
    /\ lock = 1 /\ holder = "none" /\ o2w = <<>> /\ w2o = <<>> /\ tasks = <<>>
    /\ running = 0 /\ wpc = "none" /\ wcur = [task |-> 0, data |-> 0]
    /\ finished = {} /\ handled = <<>> /\ close_pc = "no"

\* no TrackerProcessor exists
NoTracker ==
    /\ tracking = <<>> /\ ticks = 0 /\ prev_gray = FALSE /\ do_tracking = FALSE
    /\ ticks_per_obs = 0 /\ removed = <<>> /\ ntrack = 0 /\ connections = <<>>
    /\ tcall = [op |-> "init"]

\* a LineDetectionProcessor as constructed (line 1313, 1319), or none
NoLines ==
    /\ lines = <<>> /\ stagedLines = <<>> /\ rounds = 0 /\ dropped = {}

\* utils.intersecting has not been called
\* no ImageDB exists
NoImageDB == imagedb = [images |-> <<>>, files |-> <<>>] /\ dbcall = [op |-> "none"]

NoUtils == icall = [op |-> "init"] /\ NoImageDB

\* no BackgroundProcessor outside the Controller exists
NoBackground ==
    /\ bg = [count |-> 0, avg_background |-> <<>>, paused |-> TRUE, background |-> None]
    /\ bhist = [fed |-> 0, seen |-> 0, folded |-> 0, same |-> None, alt |-> <<None, None>>,
                played |-> FALSE, reset |-> FALSE, first |-> None]
    /\ bcall = "none"

\* no SpatialCalibrationProcessor exists
NoCalibration ==
    /\ cal = [calibrate |-> FALSE] /\ cfile = [k \in {} |-> 0] /\ cframe = 0
    /\ chist = [refits |-> 0] /\ ccall = [op |-> "none"]

\* no DarkflowDetectionProcessor, DetectionProcessor or DialProcessor exists
NoDarkflow == darkflow = [id_i |-> 0] /\ dfcall = [op |-> "none"]

NoDetection == detector = [ready |-> TRUE] /\ dcall = [op |-> "none"]

NoDial == dial = [objects |-> <<>>] /\ dlcall = [op |-> "none"]

NoDetectors == NoDarkflow /\ NoDetection /\ NoDial

\* none of the other processors exists
NoProcessors == NoBackground /\ NoCalibration /\ NoUtils /\ NoDetectors

\* Controller.__init__
Init ==
    /\ NoOffload
    /\ NoTracker
    /\ NoLines
    /\ NoProcessors
    /\ started = FALSE
    /\ settings = [mode |-> "background", pause |-> FALSE]
    /\ processors = <<>>
    /\ frame_processors = <<>>
    /\ background = None
    /\ bgp = <<>>
    /\ vision_state = [time |-> 0]
    /\ published = <<>>
    /\ frame_ind = 0
    /\ cam_updates = 0
    /\ next_pid = 1
    /\ ncalls = 0
    /\ call = Call("init", NoKey, NoKey, FALSE, FALSE)

Next ==
    \/ \E crop \in BOOLEAN : HandleStart(crop)
    \/ \E m \in ModeInputs, p \in PauseInputs : UpdateSettings([mode |-> m, pause |-> p])
    \/ UpdateLoopPaused
    \/ UpdateLoopNoFrame
    \/ \E f \in Pixels : UpdateLoopFrame(f)

Spec == Init /\ [][Next]_vars

(***************************************************************************)
(* Processor offload sub-protocol (processor.py 17-86).  The owner is the  *)
(* asyncio event loop of the main process: one task or callback runs at a  *)
(* time, and a task gives way only at 'await asyncio.sleep(0)'.  The       *)
(* worker is a separate process: its steps interleave with the owner's at  *)
(* every pipe and lock operation.                                          *)
(***************************************************************************)
SENTINEL == -1                   \* processor.py:10
Data == {0, 1}                   \* request payloads passed to _queue_work
InClose == -2                    \* the event loop is inside close()

Msg(task, data) == [task |-> task, data |-> data]

\* line 76: data == SENTINEL
IsSentinel(d) == d = SENTINEL

\* multiprocessing.Lock: acquire takes the semaphore if its value is 1;
\* release of a semaphore whose value is already 1 raises ValueError
\* ("semaphore or lock released too many times"), whoever calls it
CanAcquire(l) == l = 1

ReleaseRaises(l) == l = 1

\* the worker process has terminated and its end of the pipe is closed
WorkerGone == wpc \in {"exited", "crashed"}

\* Processor.__init__ with has_consumer=True: Pipe(), Lock() (created
\* unlocked), the worker process started at the top of _consume_work
InitOffload ==
    /\ lock = 1 /\ holder = "none" /\ o2w = <<>> /\ w2o = <<>> /\ tasks = <<>>
    /\ running = 0 /\ wpc = "recv" /\ wcur = Msg(0, 0)
    /\ finished = {} /\ handled = <<>> /\ close_pc = "no"

\* _queue_work(d): asyncio.ensure_future(self._await_work(d))
QueueWork(d) ==
    /\ OffFrame
    /\ running = 0 /\ close_pc = "no"
    /\ Len(tasks) < MaxReq
    /\ tasks' = Append(tasks, [pc |-> "new", data |-> d])
    /\ UNCHANGED <<lock, holder, o2w, w2o, running, wpc, wcur, finished, handled, close_pc>>

\* _await_work line 60: the event loop starts task k, which sends its request.
\* Writing to a pipe whose other end is closed raises BrokenPipeError; while
\* the data still fits the socket buffer of a not yet collected end it is
\* accepted: both outcomes are modelled.
TaskSend(k) ==
    /\ OffFrame
    /\ running = 0 /\ tasks[k].pc = "new"
    /\ \/ /\ o2w' = Append(o2w, Msg(k, tasks[k].data))
          /\ tasks' = [tasks EXCEPT ![k].pc = "acquire"]
          /\ running' = k
       \/ /\ WorkerGone
          /\ tasks' = [tasks EXCEPT ![k].pc = "failed"]
          /\ UNCHANGED <<o2w, running>>
    /\ UNCHANGED <<lock, holder, w2o, wpc, wcur, finished, handled, close_pc>>

\* line 61-62: one evaluation of 'self._lock.acquire(False)'; on failure the
\* task gives way to the event loop with asyncio.sleep(0)
TaskAcquire(k) ==
    /\ OffFrame
    /\ \/ running = k /\ tasks[k].pc = "acquire"
       \/ running = 0 /\ tasks[k].pc = "waiting"
    /\ IF CanAcquire(lock)
       THEN /\ lock' = 0 /\ holder' = "owner"
            /\ tasks' = [tasks EXCEPT ![k].pc = "recv"]
            /\ running' = k
       ELSE /\ tasks' = [tasks EXCEPT ![k].pc = "waiting"]
            /\ running' = 0
            /\ UNCHANGED <<lock, holder>>
    /\ UNCHANGED <<o2w, w2o, wpc, wcur, finished, handled, close_pc>>

\* line 63-64: the blocking recv() returns the oldest response in the pipe,
\* which is handed to _receive_result
TaskRecv(k) ==
    /\ OffFrame
    /\ running = k /\ tasks[k].pc = "recv"
    /\ w2o # <<>>
    /\ handled' = Append(handled, [task |-> k, answers |-> Head(w2o).task])
    /\ w2o' = Tail(w2o)
    /\ tasks' = [tasks EXCEPT ![k].pc = "release"]
    /\ UNCHANGED <<lock, holder, o2w, running, wpc, wcur, finished, close_pc>>

\* line 63 when the worker is gone and nothing is left to read: EOFError ends
\* the task with the lock still taken
TaskRecvEOF(k) ==
    /\ OffFrame
    /\ running = k /\ tasks[k].pc = "recv"
    /\ w2o = <<>> /\ WorkerGone
    /\ tasks' = [tasks EXCEPT ![k].pc = "failed"]
    /\ running' = 0
    /\ UNCHANGED <<lock, holder, o2w, w2o, wpc, wcur, finished, handled, close_pc>>

\* line 65: self._lock.release()
TaskRelease(k) ==
    /\ OffFrame
    /\ running = k /\ tasks[k].pc = "release"
    /\ IF ReleaseRaises(lock)
       THEN /\ tasks' = [tasks EXCEPT ![k].pc = "failed"]
            /\ UNCHANGED <<lock, holder>>
       ELSE /\ lock' = 1 /\ holder' = "none"
            /\ tasks' = [tasks EXCEPT ![k].pc = "done"]
    /\ running' = 0
    /\ UNCHANGED <<o2w, w2o, wpc, wcur, finished, handled, close_pc>>

\* _consume_work line 75-78: read a request; the sentinel ends the loop,
\* anything else is processed
WorkerRecv ==
    /\ OffFrame
    /\ wpc = "recv" /\ o2w # <<>>
    /\ o2w' = Tail(o2w)
    /\ wcur' = Head(o2w)
    /\ wpc' = IF IsSentinel(Head(o2w).data) THEN "exited" ELSE "release"
    /\ UNCHANGED <<lock, holder, w2o, tasks, running, finished, handled, close_pc>>

\* line 79: lock.release(); ValueError is not caught and ends the process
WorkerRelease ==
    /\ OffFrame
    /\ wpc = "release"
    /\ IF ReleaseRaises(lock)
       THEN /\ wpc' = "crashed"
            /\ UNCHANGED <<lock, holder, finished>>
       ELSE /\ lock' = 1 /\ holder' = "none"
            /\ finished' = finished \cup {wcur.task}
            /\ wpc' = "send"
    /\ UNCHANGED <<o2w, w2o, tasks, running, wcur, handled, close_pc>>

\* line 80: return_conn.send(result)
WorkerSend ==
    /\ OffFrame
    /\ wpc = "send"
    /\ w2o' = Append(w2o, wcur)
    /\ wpc' = "acquire"
    /\ UNCHANGED <<lock, holder, o2w, tasks, running, wcur, finished, handled, close_pc>>

\* line 81: lock.acquire(), blocking
WorkerAcquire ==
    /\ OffFrame
    /\ wpc = "acquire"
    /\ CanAcquire(lock)
    /\ lock' = 0 /\ holder' = "worker"
    /\ wpc' = "recv"
    /\ UNCHANGED <<o2w, w2o, tasks, running, wcur, finished, handled, close_pc>>

\* close() line 46-49: deregister, send the sentinel
CloseSend ==
    /\ OffFrame
    /\ running = 0 /\ close_pc = "no"
    /\ \/ /\ o2w' = Append(o2w, Msg(0, SENTINEL))
          /\ close_pc' = "joining"
          /\ running' = InClose
       \/ /\ WorkerGone
          /\ close_pc' = "raised"
          /\ UNCHANGED <<o2w, running>>
    /\ UNCHANGED <<lock, holder, w2o, tasks, wpc, wcur, finished, handled>>

\* close() line 50: consumer.join() returns once the worker process has ended
CloseJoin ==
    /\ OffFrame
    /\ close_pc = "joining"
    /\ WorkerGone
    /\ close_pc' = "done"
    /\ running' = 0
    /\ UNCHANGED <<lock, holder, o2w, w2o, tasks, wpc, wcur, finished, handled>>

\* a Processor with a worker, on its own: the controller is not involved
NoController ==
    /\ started = FALSE
    /\ settings = [mode |-> "background", pause |-> FALSE]
    /\ processors = <<>> /\ frame_processors = <<>> /\ background = None /\ bgp = <<>>
    /\ vision_state = [time |-> 0] /\ published = <<>>
    /\ frame_ind = 0 /\ cam_updates = 0 /\ next_pid = 1 /\ ncalls = 0
    /\ call = Call("init", NoKey, NoKey, FALSE, FALSE)

NextOffload ==
    \/ \E d \in Data : QueueWork(d)
    \/ \E k \in 1..Len(tasks) : TaskSend(k)
    \/ \E k \in 1..Len(tasks) : TaskAcquire(k)
    \/ \E k \in 1..Len(tasks) : TaskRecv(k)
    \/ \E k \in 1..Len(tasks) : TaskRecvEOF(k)
    \/ \E k \in 1..Len(tasks) : TaskRelease(k)
    \/ CloseSend
    \/ CloseJoin
    \/ WorkerRecv
    \/ WorkerRelease
    \/ WorkerSend
    \/ WorkerAcquire

InitOff == NoController /\ NoTracker /\ NoLines /\ NoProcessors /\ InitOffload

SpecOffload == InitOff /\ [][NextOffload]_vars

(***************************************************************************)
(* Geometry helpers.  line_from_endpoints, percent_diff, distance_pts and  *)
(* val_in_range are imported from utils (processor.py line 4) but are not  *)
(* in the sources; they are modelled from spec 4.1 and 4.10.  A point is   *)
(* <<x, y>> in whole pixels, a line's endpoints are a pair of points, a    *)
(* slope or an intercept is a fraction <<numerator, denominator>> in       *)
(* lowest terms with a positive denominator (<<1, 0>> for a vertical       *)
(* line's slope), and distances are compared by their squares.             *)
(***************************************************************************)
Abs(a) == IF a < 0 THEN -a ELSE a

RECURSIVE GCD(_, _)
GCD(a, b) == IF b = 0 THEN Abs(a) ELSE GCD(Abs(b), Abs(a) % Abs(b))

\* the fraction n/d in lowest terms, d # 0
Frac(n, d) ==
    LET g == GCD(n, d)
        sgn == IF d < 0 THEN -1 ELSE 1
    IN  <<sgn * (n \div g), sgn * (d \div g)>>

\* squared distance of a pair of points
distance_pts_sq(pq) ==
    (pq[1][1] - pq[2][1]) * (pq[1][1] - pq[2][1])
    + (pq[1][2] - pq[2][2]) * (pq[1][2] - pq[2][2])

\* (slope, intercept) of the line through a pair of points
line_from_endpoints(pq) ==
    LET dx == pq[2][1] - pq[1][1]
        dy == pq[2][2] - pq[1][2]
    IN  IF dx = 0 THEN [slope |-> <<1, 0>>, intercept |-> <<pq[1][1], 0>>]
        ELSE [slope |-> Frac(dy, dx),
              intercept |-> Frac(pq[1][2] * dx - dy * pq[1][1], dx)]

\* abs(percent_diff(a, b)) < pct / 100, the difference taken relative to a
percent_diff_below(a, b, pct) ==
    /\ a[2] # 0 /\ b[2] # 0 /\ a[1] # 0
    /\ Abs(a[1] * b[2] - b[1] * a[2]) * 100 < pct * Abs(a[1] * b[2])

\* lo <= d <= hi for a distance d given by its square
val_in_range_sq(dsq, lo, hi) == lo * lo <= dsq /\ dsq <= hi * hi

(***************************************************************************)
(* LineDetectionProcessor (processor.py 1307-1427).  A stored line is the  *)
(* dictionary of line 1381/1407; for the claims it also records the round  *)
(* in which it was first detected (born), the last round in which a        *)
(* detection matched it (last), the round in which it was promoted (conf,  *)
(* 0 while staged) and whether the last match replaced it (swapped).       *)
(***************************************************************************)
observationLimit == 5                                   \* obsLimit, line 1311
SimilarPct == 15                                        \* 0.15, line 1377 and 1398

\* what _detect_lines can report: a short line, the same line drawn longer,
\* the same line seen slightly turned, and an unrelated line
La == <<(<<400, 500>>), (<<500, 450>>)>>
LaLong == <<(<<400, 500>>), (<<600, 400>>)>>
LaNear == <<(<<400, 500>>), (<<500, 447>>)>>
Lb == <<(<<200, 100>>), (<<300, 300>>)>>
DetectableLines == {La, LaLong, LaNear, Lb}
Detections == {<<>>} \cup {<<a>> : a \in DetectableLines} \cup {<<La, Lb>>, <<La, La>>}

\* line 1377, 1398: slope and intercept are both within 15 percent
Similar(s1, i1, s2, i2) ==
    percent_diff_below(s1, s2, SimilarPct) /\ percent_diff_below(i1, i2, SimilarPct)

\* line 1379, 1400: the detected line replaces the stored one
Longer(detected, stored) == distance_pts_sq(detected) > distance_pts_sq(stored)

\* line 1381, 1401, 1407: the dictionary of a detected line
NewLine(ep, det, r) ==
    LET l == line_from_endpoints(ep)
    IN  [endpoints |-> ep, slope |-> l.slope, intercept |-> l.intercept,
         detected |-> det, observed |-> observationLimit,
         born |-> r, last |-> r, conf |-> 0, swapped |-> FALSE]

\* line 1373-1389: the first confirmed line the detection matches (0: none);
\* slope and intercept of the stored line are recomputed from its endpoints
RECURSIVE FirstMainMatch(_, _, _)
FirstMainMatch(cur, j, d) ==
    IF j > Len(cur) THEN 0
    ELSE LET c == line_from_endpoints(cur[j].endpoints)
         IN  IF Similar(c.slope, c.intercept, d.slope, d.intercept) THEN j
             ELSE FirstMainMatch(cur, j + 1, d)

\* line 1394-1405: the first staged line the detection matches (0: none)
RECURSIVE FirstStagedMatch(_, _, _)
FirstStagedMatch(st, j, d) ==
    IF j > Len(st) THEN 0
    ELSE IF Similar(st[j].slope, st[j].intercept, d.slope, d.intercept) THEN j
         ELSE FirstStagedMatch(st, j + 1, d)

\* line 1379-1386: a confirmed line matched by the detection ep in round r
MainHit_keepsCountdown(l, ep, r) ==
    IF Longer(ep, l.endpoints)
    THEN [NewLine(ep, TRUE, r) EXCEPT !.born = l.born, !.conf = l.conf, !.swapped = TRUE]
    ELSE [l EXCEPT !.detected = TRUE, !.last = r, !.swapped = FALSE]

MainHit(l, ep, r) ==
    IF Longer(ep, l.endpoints)
    THEN [NewLine(ep, TRUE, r) EXCEPT !.born = l.born, !.conf = l.conf, !.swapped = TRUE]
    ELSE [l EXCEPT !.detected = TRUE, !.observed = observationLimit, !.last = r,
                   !.swapped = FALSE]

\* line 1400-1403: a staged line matched by the detection ep in round r
StagedHit_unmarked(l, ep, r) ==
    IF Longer(ep, l.endpoints)
    THEN [NewLine(ep, TRUE, r) EXCEPT !.born = l.born, !.swapped = TRUE]
    ELSE [l EXCEPT !.last = r, !.swapped = FALSE]

StagedHit(l, ep, r) ==
    IF Longer(ep, l.endpoints)
    THEN [NewLine(ep, TRUE, r) EXCEPT !.born = l.born, !.swapped = TRUE]
    ELSE [l EXCEPT !.detected = TRUE, !.last = r, !.swapped = FALSE]

\* line 1366-1407: the detections of round r, in order, against the confirmed
\* lines cur, the staged lines st and the leftover lines collected so far
RECURSIVE MatchDetections(_, _, _, _, _, _)
MatchDetections(cur, st, left, det, i, r) ==
    IF i > Len(det) THEN [cur |-> cur, st |-> st, left |-> left]
    ELSE LET d == line_from_endpoints(det[i])
             j == FirstMainMatch(cur, 1, d)
             k == FirstStagedMatch(st, 1, d)
         IN  IF j # 0
             THEN MatchDetections([cur EXCEPT ![j] = MainHit(cur[j], det[i], r)],
                                  st, left, det, i + 1, r)
             ELSE IF k # 0
             THEN MatchDetections(cur, [st EXCEPT ![k] = StagedHit(st[k], det[i], r)],
                                  left, det, i + 1, r)
             ELSE MatchDetections(cur, st, Append(left, NewLine(det[i], FALSE, r)),
                                  det, i + 1, r)

\* line 1417-1418: an undetected confirmed line, its countdown decremented,
\* stays in the confirmed set
Survives_atZero(observed) == observed >= 0

Survives(observed) == observed > 0

\* line 1424: a staged line moves to the confirmed set
Promoted_always(l) == TRUE

Promoted(l) == l.detected

\* line 1410-1419: the confirmed lines after the last pass-through
RECURSIVE KeptLines(_)
KeptLines(cur) ==
    IF cur = <<>> THEN <<>>
    ELSE LET l == Head(cur)
             m == [l EXCEPT !.observed = l.observed - 1]
         IN  IF l.detected THEN <<l>> \o KeptLines(Tail(cur))
             ELSE IF Survives(m.observed) THEN <<m>> \o KeptLines(Tail(cur))
             ELSE KeptLines(Tail(cur))

\* line 1422-1425: the staged lines that are appended to the confirmed set
RECURSIVE PromotedLines(_, _)
PromotedLines(st, r) ==
    IF st = <<>> THEN <<>>
    ELSE IF Promoted(Head(st))
         THEN <<[Head(st) EXCEPT !.conf = r]>> \o PromotedLines(Tail(st), r)
         ELSE PromotedLines(Tail(st), r)

\* line 1426: the staged lines of the next round
NextStaged_keepsOld(st, left) == st \o left

NextStaged(st, left) == left

\* how a line left the detector in round r
Drop(l, tier, r) == [tier |-> tier, born |-> l.born, last |-> l.last, at |-> r]

\* detect_adjust_lines(frame) where _detect_lines(frame) returns det.  The
\* coroutine never awaits, so a round runs to its end once it has started
\* and _ready (line 1355, 1427) is true whenever process_frame tests it.
DetectAdjustLines(det) ==
    /\ LinFrame
    /\ rounds < MaxRounds
    /\ rounds' = rounds + 1
    /\ LET r == rounds + 1
           cur0 == [i \in 1..Len(lines) |-> [lines[i] EXCEPT !.detected = FALSE]]
           m == MatchDetections(cur0, stagedLines, <<>>, det, 1, r)
           kept == KeptLines(m.cur)
       IN  /\ lines' = kept \o PromotedLines(m.st, r)
           /\ stagedLines' = NextStaged(m.st, m.left)
           /\ dropped' = dropped
                 \cup {Drop(m.cur[i], "confirmed", r) : i \in
                          {i \in 1..Len(m.cur) :
                              /\ ~m.cur[i].detected
                              /\ ~Survives(m.cur[i].observed - 1)}}
                 \cup {Drop(m.st[i], "staged", r) : i \in
                          {i \in 1..Len(m.st) : ~Promoted(m.st[i])}}

\* a LineDetectionProcessor on its own
InitLines == NoController /\ NoOffload /\ NoTracker /\ NoLines /\ NoProcessors

NextLines == \E det \in Detections : DetectAdjustLines(det)

SpecLines == InitLines /\ [][NextLines]_vars

(***************************************************************************)
(* TrackerProcessor (processor.py 417-726).  Observation counters are      *)
(* kept in half ticks, because ticks_per_obs = detector_stride *           *)
(* delete_threshold_period / stride is a float division (line 460): 3.0    *)
(* per template for a Detection Processor, 7.5 for the Darkflow one.       *)
(* Each tracked object also records, for the claims, the counter it was    *)
(* last set to (obs0) and the process_frame calls (idle) and ageing passes *)
(* (aged) it has been through since.                                       *)
(***************************************************************************)
CONDITIONS_ID == 999                                   \* processor.py:8
Half == 2                                              \* one tick, in half ticks
max_obs_possible == 24 * Half                          \* line 451
FlowBonus == 2 * Half                                  \* line 524
TicksPerObs == {1, 2, 6}                               \* 0.5, 1.0, 3.0 ticks
Labels == {"a", "b"}                                   \* template labels
Ids == {1}                                             \* template ids
Rects == {<<0, 0, 4, 4>>, <<2, 2, 4, 4>>, <<8, 8, 4, 4>>}   \* bounding rectangles (x, y, w, h)
FrameH == 720                                          \* frame.shape[0]
FrameW == 1280                                         \* frame.shape[1]
ScaleDen == 576000                                     \* a scaled coordinate c stands for c / ScaleDen

Min(a, b) == IF a < b THEN a ELSE b

Max(a, b) == IF a > b THEN a ELSE b

\* intersecting_rects is not defined in the sources: two rectangles
\* intersect when they overlap in both axes (spec 4.12)
intersecting_rects(a, b) ==
    /\ Min(a[1] + a[3], b[1] + b[3]) - Max(a[1], b[1]) > 0
    /\ Min(a[2] + a[4], b[2] + b[4]) - Max(a[2], b[2]) > 0

\* DialProcessor._objects (line 1516)
DialObjects == <<[id |-> CONDITIONS_ID, label |-> "conditions"]>>

\* TrackerProcessor.objects with a dial reader attached (line 419-425)
TrackerObjects == DialObjects \o [i \in 1..Len(tracking) |->
                                     [id |-> tracking[i].id, label |-> tracking[i].label]]

\* utils.rect_scaled_center (utils.py 145-148): x is divided by the frame's
\* height and y by its width
rect_scaled_center(rect) ==
    <<(2 * rect[1] + rect[3]) * (ScaleDen \div (2 * FrameH)),
      (2 * rect[2] + rect[4]) * (ScaleDen \div (2 * FrameW))>>

\* _unscale_point (line 643-644): x is multiplied by the frame's width and y
\* by its height; the result is in pixels (whole pixels for the rectangles
\* and flows the specifications draw)
unscale_point(c) == <<(c[1] * FrameW) \div ScaleDen, (c[2] * FrameH) \div ScaleDen>>

\* line 696: center * (1 - alpha) + new * alpha with alpha = 0.8 (line 428)
Smoothed(c, n) == <<(c[1] + 4 * n[1]) \div 5, (c[2] + 4 * n[2]) \div 5>>

\* (id, label), as the connection lists hold it (line 625-629)
Key(t) == <<t.id, t.label>>

\* line 700: '{}-{}'.format(label, id_num)
ComposedName(label, id_num) == label \o "-" \o ToString(id_num)

\* line 694: the first tracked object that has the composed name or whose
\* rectangle intersects brect; 0 if there is none
RECURSIVE FirstMatch(_, _, _, _, _)
FirstMatch(tr, i, label, id_num, brect) ==
    IF i > Len(tr) THEN 0
    ELSE IF tr[i].name = ComposedName(label, id_num)
            \/ intersecting_rects(tr[i].brect, brect)
         THEN i
         ELSE FirstMatch(tr, i + 1, label, id_num, brect)

\* line 693-698: whether track() takes the call for an existing object
Existing_rectOnly(tr, label, id_num, brect) == FirstMatch(tr, 1, "", 0, brect)

Existing(tr, label, id_num, brect) == FirstMatch(tr, 1, label, id_num, brect)

\* line 692-727: _tracking after track(frame, brect, None, label, id_num)
\* with ticks_per_obs = tpo
Tracked(tr, tpo, brect, label, id_num) ==
    LET m == Existing(tr, label, id_num, brect)
    IN  IF m # 0
        THEN [tr EXCEPT ![m].observed = tpo,
                        ![m].center_scaled = Smoothed(tr[m].center_scaled,
                                                      rect_scaled_center(brect)),
                        ![m].brect = brect,
                        ![m].obs0 = tpo,
                        ![m].idle = 0,
                        ![m].aged = 0]
        ELSE Append(tr, [name |-> ComposedName(label, id_num),
                         label |-> label, id |-> id_num, brect |-> brect,
                         center_scaled |-> rect_scaled_center(brect),
                         observed |-> tpo,
                         connectedToPrimary |-> <<>>,
                         connectedToSecondary |-> <<>>,
                         connectedToSource |-> FALSE,
                         linked |-> FALSE,
                         obs0 |-> tpo, idle |-> 0, aged |-> 0])

\* track(frame, brect, None, label, id_num); linked tells whether
\* process_frame has given the object its connectedToSecondary and
\* connectedToSource keys (track() creates connectedToPrimary only, line 723)
Track(brect, label, id_num) ==
    /\ TrkFrame
    /\ ntrack < MaxTrackCalls
    /\ ntrack' = ntrack + 1
    /\ LET m == Existing(tracking, label, id_num, brect)
       IN  /\ tracking' = Tracked(tracking, ticks_per_obs, brect, label, id_num)
           /\ tcall' = [op |-> "track", brect |-> brect, label |-> label, id |-> id_num,
                        result |-> (m = 0), matched |-> m, before |-> Len(tracking)]
    /\ UNCHANGED <<ticks, prev_gray, do_tracking, ticks_per_obs, removed, connections>>

\* line 527: the object is scheduled for deletion
ShouldDelete_atZero(observed) == observed <= 0

ShouldDelete(observed) == observed < 0

\* line 493-495: the connection lists are emptied at the start of the pass
ResetLinks_keeps(t) == [t EXCEPT !.linked = TRUE]

ResetLinks(t) ==
    [t EXCEPT !.connectedToPrimary = <<>>, !.connectedToSecondary = <<>>,
              !.connectedToSource = FALSE, !.linked = TRUE]

\* line 498-524: one object after the ageing pass; accepted tells whether
\* the flow displacement at its center passed the checks of line 519, flow
\* is that displacement, scaled
Aged(t, accepted, flow) ==
    IF accepted
    THEN LET o == Min(t.observed - Half + FlowBonus, max_obs_possible)
         IN  [t EXCEPT !.observed = o, !.obs0 = o, !.idle = 0, !.aged = 0,
                       !.center_scaled = <<t.center_scaled[1] + flow[1],
                                           t.center_scaled[2] + flow[2]>>]
    ELSE [t EXCEPT !.observed = t.observed - Half, !.idle = t.idle + 1,
                   !.aged = t.aged + 1]

\* line 529-539: the sequence without the objects scheduled for deletion,
\* resp. those objects
RECURSIVE Kept(_)
Kept(tr) ==
    IF tr = <<>> THEN <<>>
    ELSE IF ShouldDelete(Head(tr).observed) THEN Kept(Tail(tr))
         ELSE <<Head(tr)>> \o Kept(Tail(tr))

RECURSIVE Deleted(_)
Deleted(tr) ==
    IF tr = <<>> THEN <<>>
    ELSE IF ShouldDelete(Head(tr).observed) THEN <<Head(tr)>> \o Deleted(Tail(tr))
         ELSE Deleted(Tail(tr))

\* a list without the first occurrence of key
RECURSIVE RemoveFirst(_, _)
RemoveFirst(list, key) ==
    IF list = <<>> THEN <<>>
    ELSE IF Head(list) = key THEN Tail(list)
         ELSE <<Head(list)>> \o RemoveFirst(Tail(list), key)

\* line 531-536: the references to the deleted objects are taken out of the
\* connectedToPrimary lists of the objects that stay
RECURSIVE Pruned(_, _)
Pruned(tr, del) ==
    IF del = <<>> THEN tr
    ELSE Pruned([i \in 1..Len(tr) |->
                    [tr[i] EXCEPT !.connectedToPrimary =
                                      RemoveFirst(tr[i].connectedToPrimary, Key(Head(del)))]],
                Tail(del))

(***************************************************************************)
(* _connect_objects (line 551-636)                                         *)
(***************************************************************************)
dist_th_upper == (150 * FrameH) \div 720                 \* line 448
dist_th_lower == (75 * FrameH) \div 720                  \* line 449
source_dist_thresh_upper == (200 * FrameH) \div 720      \* line 558
source_dist_thresh_lower == (10 * FrameH) \div 720       \* line 559
source_position_unscaled == <<FrameW, FrameH \div 2>>    \* line 556

\* line 573: one of the line's endpoints is near the object's center
NearEndpoint(center, ep) ==
    \/ val_in_range_sq(distance_pts_sq(<<center, ep[1]>>), dist_th_lower, dist_th_upper)
    \/ val_in_range_sq(distance_pts_sq(<<center, ep[2]>>), dist_th_lower, dist_th_upper)

\* line 576-581: the endpoint that is further from the object's center
FarEndpoint(center, ep) ==
    IF distance_pts_sq(<<center, ep[1]>>) <= distance_pts_sq(<<center, ep[2]>>)
    THEN ep[2] ELSE ep[1]

\* line 585-586: the far endpoint is at the source
AtSource(endpoint) ==
    val_in_range_sq(distance_pts_sq(<<source_position_unscaled, endpoint>>),
                    source_dist_thresh_lower, source_dist_thresh_upper)

\* line 609: slope of the segment joining the two centers
rxrSlope(center, center2) ==
    IF center[2] > center2[2] THEN line_from_endpoints(<<center, center2>>).slope
    ELSE line_from_endpoints(<<center2, center>>).slope

\* line 608-615: abs((pi/2 + arctan(s1)) - (pi/2 + arctan(s2))) > pi/6.  For
\* direction vectors v1 = (den, num) of s1 and v2 of s2 the difference d of
\* the arctangents lies in [-pi, pi] and cos d = v1.v2 / (|v1| |v2|), so
\* d is within pi/6 exactly when v1.v2 >= 0 and 4 (v1.v2)^2 >= 3 |v1|^2 |v2|^2.
AngleExceeds_never(s1, s2) == FALSE

AngleExceeds(s1, s2) ==
    LET dot == s1[2] * s2[2] + s1[1] * s2[1]
        n1 == s1[2] * s1[2] + s1[1] * s1[1]
        n2 == s2[2] * s2[2] + s2[1] * s2[1]
    IN  ~(dot >= 0 /\ 4 * dot * dot >= 3 * n1 * n2)

\* line 623: the object at center, not the one at center2, is the primary
IsPrimary_smallerX(center, center2) ==
    (center[1] < center2[1]) \/ (center[1] = center2[1] /\ center[2] < center2[2])

IsPrimary(center, center2) ==
    (center[1] > center2[1]) \/ (center[1] = center2[1] /\ center[2] < center2[2])

\* line 566: the line was consumed earlier in this tick
Consumed_never(k, used) == FALSE

Consumed(k, used) == k \in used

\* line 595-618: the first object t2 = tr[j] that the far endpoint of the
\* line leads to from t1 = tr[i]; 0 if there is none
RECURSIVE FirstLink(_, _, _, _, _)
FirstLink(tr, i, j, line, endpoint) ==
    IF j > Len(tr) THEN 0
    ELSE LET t1 == tr[i]
             t2 == tr[j]
             center == unscale_point(t1.center_scaled)
             center2 == unscale_point(t2.center_scaled)
         IN  IF t1.id = t2.id THEN FirstLink(tr, i, j + 1, line, endpoint)
             ELSE IF Key(t2) \in Range(t1.connectedToPrimary)
                     \/ Key(t2) \in Range(t1.connectedToSecondary)
             THEN FirstLink(tr, i, j + 1, line, endpoint)
             ELSE IF AngleExceeds(line.slope, rxrSlope(center, center2))
             THEN FirstLink(tr, i, j + 1, line, endpoint)
             ELSE IF val_in_range_sq(distance_pts_sq(<<center2, endpoint>>),
                                     dist_th_lower, dist_th_upper)
             THEN j
             ELSE FirstLink(tr, i, j + 1, line, endpoint)

\* line 623-629: t1 = tr[i] and t2 = tr[j] are linked
Linked_oneList(tr, i, j) ==
    LET center == unscale_point(tr[i].center_scaled)
        center2 == unscale_point(tr[j].center_scaled)
    IN  IF IsPrimary(center, center2)
        THEN [tr EXCEPT ![i].connectedToPrimary = Append(@, Key(tr[j]))]
        ELSE [tr EXCEPT ![i].connectedToSecondary = Append(@, Key(tr[j]))]

Linked(tr, i, j) ==
    LET center == unscale_point(tr[i].center_scaled)
        center2 == unscale_point(tr[j].center_scaled)
    IN  IF IsPrimary(center, center2)
        THEN [tr EXCEPT ![i].connectedToPrimary = Append(@, Key(tr[j])),
                        ![j].connectedToSecondary = Append(@, Key(tr[i]))]
        ELSE [tr EXCEPT ![j].connectedToPrimary = Append(@, Key(tr[i])),
                        ![i].connectedToSecondary = Append(@, Key(tr[j]))]

\* what the tick log keeps of a connection: the line, the number of confirmed
\* lines, the two objects with
\* their centers, the far endpoint, and which object was made the primary
SourceEntry(k, n, t1) ==
    [line |-> k, nlines |-> n, kind |-> "source", a |-> Key(t1), b |-> Key(t1), primary |-> Key(t1),
     ca |-> unscale_point(t1.center_scaled), cb |-> source_position_unscaled,
     far |-> source_position_unscaled, slope |-> <<0, 1>>]

LinkEntry(k, n, line, t1, t2, endpoint, after) ==
    [line |-> k, nlines |-> n, kind |-> "link", a |-> Key(t1), b |-> Key(t2),
     primary |-> IF Key(t2) \in Range(after.connectedToPrimary) THEN Key(t1) ELSE Key(t2),
     ca |-> unscale_point(t1.center_scaled), cb |-> unscale_point(t2.center_scaled),
     far |-> endpoint, slope |-> line.slope]

\* line 562-636: the objects from tr[i] on, and for tr[i] the lines from
\* lns[k] on.  The break of line 591 ends the loop over the lines, the break
\* of line 636 only the loop over the second objects.
RECURSIVE ConnectObjects(_, _, _, _, _, _)
ConnectObjects(tr, lns, used, log, i, k) ==
    IF i > Len(tr) THEN [tracking |-> tr, log |-> log]
    ELSE IF k > Len(lns) THEN ConnectObjects(tr, lns, used, log, i + 1, 1)
    ELSE IF Consumed(k, used) THEN ConnectObjects(tr, lns, used, log, i, k + 1)
    ELSE LET center == unscale_point(tr[i].center_scaled)
             ep == lns[k].endpoints
             endpoint == FarEndpoint(center, ep)
             j == FirstLink(tr, i, 1, lns[k], endpoint)
         IN  IF ~NearEndpoint(center, ep)
             THEN ConnectObjects(tr, lns, used, log, i, k + 1)
             ELSE IF AtSource(endpoint)
             THEN ConnectObjects([tr EXCEPT ![i].connectedToSource = TRUE], lns,
                                 used \cup {k}, Append(log, SourceEntry(k, Len(lns), tr[i])),
                                 i + 1, 1)
             ELSE IF j # 0
             THEN LET after == Linked(tr, i, j)
                  IN  ConnectObjects(after, lns, used \cup {k},
                                     Append(log, LinkEntry(k, Len(lns), lns[k], tr[i], tr[j],
                                                           endpoint, after[i])),
                                     i, k + 1)
             ELSE ConnectObjects(tr, lns, used, log, i, k + 1)

\* line 552: nothing is done while there is no confirmed line
connect_objects(tr, lns) ==
    IF Len(lns) = 0 THEN [tracking |-> tr, log |-> <<>>]
    ELSE ConnectObjects(tr, lns, {}, <<>>, 1, 1)

\* process_frame, the first call of a flow-tracking tracker (line 481-483):
\* the frame is stored as prev_gray and nothing else is done
ProcessFramePrime ==
    /\ TrkFrame
    /\ ticks < MaxTrackerTicks
    /\ do_tracking /\ ~prev_gray
    /\ ticks' = ticks + 1
    /\ prev_gray' = TRUE
    /\ tracking' = [i \in 1..Len(tracking) |->
                       [tracking[i] EXCEPT !.idle = tracking[i].idle + 1]]
    /\ tcall' = [op |-> "process_frame", nlines |-> 0]
    /\ UNCHANGED <<do_tracking, ticks_per_obs, removed, ntrack, connections>>

\* process_frame otherwise: ageing, deletion, then _connect_objects over the
\* line detector's confirmed lines
ProcessFrame(accept, flow) ==
    /\ TrkFrame
    /\ ticks < MaxTrackerTicks
    /\ do_tracking => prev_gray
    /\ ticks' = ticks + 1
    /\ LET aged == [i \in 1..Len(tracking) |->
                       Aged(ResetLinks(tracking[i]), do_tracking /\ accept[i], flow[i])]
           c == connect_objects(Pruned(Kept(aged), Deleted(aged)), lines)
       IN  /\ tracking' = c.tracking
           /\ connections' = c.log
           /\ removed' = removed \o Deleted(aged)
    /\ tcall' = [op |-> "process_frame", nlines |-> Len(lines)]
    /\ UNCHANGED <<prev_gray, do_tracking, ticks_per_obs, ntrack>>

\* no displacement for any object
NoFlow == [i \in 1..Len(tracking) |-> <<0, 0>>]

\* the Controller in detection mode with the Detection Processor that
\* _start_detection constructs over a computed background, and that
\* processor's tracker (DetectionProcessor.__init__ line 1051-1052:
\* do_tracking is left at its default) or a tracker without flow tracking
\* (DarkflowDetectionProcessor.__init__ line 1264)
InitTracker ==
    /\ NoOffload
    /\ started = TRUE
    /\ settings = [mode |-> "detection", pause |-> FALSE]
    /\ processors = <<Handle(1, "DetectionProcessor", 1)>>
    /\ frame_processors = DetectionProcessor_register(<<>>, 1)
    /\ background \in Pixels /\ bgp = <<>>
    /\ vision_state = [time |-> 0] /\ published = <<>>
    /\ frame_ind = 0 /\ cam_updates = 0 /\ next_pid = 6 /\ ncalls = 0
    /\ call = Call("init", NoKey, NoKey, FALSE, FALSE)
    /\ tracking = <<>> /\ ticks = 0 /\ prev_gray = FALSE
    /\ do_tracking \in BOOLEAN
    /\ ticks_per_obs \in TicksPerObs
    /\ removed = <<>> /\ ntrack = 0 /\ connections = <<>>
    /\ tcall = [op |-> "init"]
    /\ NoLines
    /\ NoProcessors

\* Camera.update calls the tracker's process_frame on the frames its stride
\* selects: the tracker's step is taken separately from the controller's
\* iteration, which covers every stride
NextTracker ==
    \/ \E r \in Rects, l \in Labels, n \in Ids : Track(r, l, n)
    \/ ProcessFramePrime
    \/ \E accept \in [1..Len(tracking) -> BOOLEAN] : ProcessFrame(accept, NoFlow)
    \/ \E f \in Pixels : UpdateLoopFrame(f)

SpecTracker == InitTracker /\ [][NextTracker]_vars

(***************************************************************************)
(* The tracker of a Detection Processor together with its line detector.   *)
(* Camera.update calls process_frame of either on the frames its stride    *)
(* selects; a detection round is scheduled by the line detector's          *)
(* process_frame (line 1328) and runs when the event loop gets to it.      *)
(* Rectangles <<9m, 16n, 45, 64>> have the unscaled center                 *)
(* <<16m + 40, 9n + 18>>.                                                  *)
(***************************************************************************)
RectA == <<180, 608, 45, 64>>                   \* center <<360, 360>>
RectC == <<180, 128, 45, 64>>                   \* center <<360, 90>>, straight above RectA
RectD == <<324, 384, 45, 64>>                   \* center <<616, 234>>
ConnLabels == {"a"}
\* the rectangle and the template id of a track() call
ConnTracks == {<<RectA, 1>>, <<RectA, 2>>, <<RectC, 2>>, <<RectD, 2>>}

Lad == <<(<<460, 350>>), (<<660, 370>>)>>       \* starts at RectA, ends near RectD, off the segment between them
Lca == <<(<<365, 190>>), (<<375, 260>>)>>       \* drawn from RectC to RectA
Lda == <<(<<450, 316>>), (<<526, 278>>)>>       \* drawn from RectA to RectD
Las == <<(<<488, 297>>), (<<1100, 300>>)>>      \* from between RectA and RectD to the source
Ldb == <<(<<450, 330>>), (<<526, 300>>)>>       \* a second line drawn from RectA to RectD
ConnDetections == {<<Lad, Lca>>, <<Lda, Las, Ldb>>}

\* DetectionProcessor(stride=1) over a database of one template: the tracker
\* tracks flow (do_tracking defaults to True) and ticks_per_obs is 1.0
InitConnect ==
    /\ InitTracker
    /\ background = 0
    /\ do_tracking = TRUE
    /\ ticks_per_obs = 2

NextConnect ==
    \/ \E c \in ConnTracks, l \in ConnLabels : Track(c[1], l, c[2])
    \/ ticks < MaxConnTicks /\ ProcessFramePrime
    \/ \E accept \in [1..Len(tracking) -> BOOLEAN] :
           ticks < MaxConnTicks /\ ProcessFrame(accept, NoFlow)
    \/ \E det \in ConnDetections : rounds < MaxConnRounds /\ DetectAdjustLines(det)

SpecConnect == InitConnect /\ [][NextConnect]_vars

(***************************************************************************)
(* The BackgroundProcessor on its own: process_frame, play(), pause() and  *)
(* reset() in any order.  bhist records, since the construction or the     *)
(* last reset(): the frames given (seen), the frames folded into the       *)
(* average (folded), the value of the frames if they were all the same     *)
(* (same, else Mixed), and the two values <<A, B>> if the folded frames    *)
(* went A, B, A, B, ... (alt, else <<Mixed, Mixed>>).  It also records,     *)
(* since the construction: whether play() and reset() were called, and     *)
(* the first frame given (first).                                          *)
(***************************************************************************)
Mixed == -2
FrameValues == {0, 1, 2, 255}                    \* values of a uint8 pixel
LongRun == 16843008                              \* 255 * LongRun = 2^32 - 256

\* bhist after a frame f, which was folded or not
Seen(h, f, folds) ==
    [fed |-> h.fed + 1,
     seen |-> h.seen + 1,
     folded |-> IF folds THEN h.folded + 1 ELSE h.folded,
     same |-> IF h.seen = 0 \/ h.same = f THEN f ELSE Mixed,
     alt |-> IF ~folds THEN h.alt
             ELSE IF h.folded = 0 THEN <<f, None>>
             ELSE IF h.folded = 1 THEN <<h.alt[1], f>>
             ELSE IF h.alt[1] # Mixed /\ f = h.alt[2 - (h.folded % 2)] THEN h.alt
             ELSE <<Mixed, Mixed>>,
     played |-> h.played,
     reset |-> h.reset,
     first |-> IF h.first = None THEN f ELSE h.first]

BgProcessFrame(f) ==
    /\ BgFrame
    /\ bhist.fed < MaxBgFrames
    /\ bg' = BackgroundProcessor_process_frame(bg, f)
    /\ bhist' = Seen(bhist, f, ~bg.paused)
    /\ bcall' = "process_frame"

BgPlay ==
    /\ BgFrame
    /\ bg' = BackgroundProcessor_play(bg)
    /\ bcall' = "play"
    /\ bhist' = [bhist EXCEPT !.played = TRUE]

BgPause ==
    /\ BgFrame
    /\ bg' = BackgroundProcessor_pause(bg)
    /\ bcall' = "pause"
    /\ UNCHANGED bhist

BgReset ==
    /\ BgFrame
    /\ bg' = BackgroundProcessor_reset(bg)
    /\ bhist' = [bhist EXCEPT !.seen = 0, !.folded = 0, !.same = None,
                              !.alt = <<None, None>>, !.reset = TRUE]
    /\ bcall' = "reset"

\* the background argument of the constructor: none, or an image of value 9
Backgrounds == {None, 9}

\* line 376: BackgroundProcessor(camera, background)
BackgroundProcessor_given(b) == [BackgroundProcessor_init EXCEPT !.background = b]

\* BackgroundProcessor(camera, background) as constructed, or the one that
\* play() started right after its construction and that was then given
\* LongRun frames of value 255: its accumulator is 255 * LongRun = 2^32 - 256
InitBackground ==
    /\ NoController /\ NoOffload /\ NoTracker /\ NoLines /\ NoCalibration /\ NoUtils
    /\ NoDetectors
    /\ bcall = "init"
    /\ \/ /\ \E b \in Backgrounds : bg = BackgroundProcessor_given(b)
          /\ bhist = [fed |-> 0, seen |-> 0, folded |-> 0, same |-> None,
                      alt |-> <<None, None>>, played |-> FALSE, reset |-> FALSE,
                      first |-> None]
       \/ /\ bg = [count |-> LongRun, avg_background |-> <<Word - 1, Word - 256>>,
                    paused |-> FALSE, background |-> 255]
          /\ bhist = [fed |-> 0, seen |-> LongRun, folded |-> LongRun, same |-> 255,
                      alt |-> <<255, 255>>, played |-> TRUE, reset |-> FALSE,
                      first |-> 255]

NextBackground ==
    \/ \E f \in FrameValues : BgProcessFrame(f)
    \/ BgPlay
    \/ BgPause
    \/ BgReset

SpecBackground == InitBackground /\ [][NextBackground]_vars

(***************************************************************************)
(* SpatialCalibrationProcessor (processor.py 89-318).  A fit value is      *)
(* kept in units of 0.0001 and an observation count in thousandths.  The   *)
(* points and the matrices are not computed: a transform is the number of  *)
(* the homography update that produced it (Identity for np.identity(3)),   *)
(* and the fit that _update_homography measures is an input of the round.  *)
(***************************************************************************)
CalN == 5                        \* N, the least number of points a refit can use (line 296)
CalDelay == 1                    \* delay
CalStay == 3                     \* stay
Identity == 0                    \* np.identity(3)
FitOnReset == 1000000            \* self.fit = 100, line 223
BestFitOnReset == 100            \* self._best_fit = 0.01, line 220 and 165
WriteBelow == 10                 \* .001, line 205 and 245
SeedBelow == 100                 \* 0.01, line 250
OneCount == 1000                 \* one observation

FitValues == {5000, 2000, 3000, 500, 90, 5}      \* 0.5, 0.2, 0.3, 0.05, 0.009, 0.0005
ExampleFits == <<5000, 2000, 3000, 500>>         \* the refits 0.5, 0.2, 0.3, 0.05
Off == -3                                        \* the refits since reset are not the example's
MayMiss == {0}                   \* the indices at which the segmenter may report no segment

\* '{}x{}'.format(self.frameWidth, self.frameHeight): cap.get returns floats
ResKey(width, height) == ToString(width) \o ".0x" \o ToString(height) \o ".0"

OtherResolution == [k \in {ResKey(640, 480)} |->
                       [transform |-> Identity, scaled_transform |-> Identity,
                        best_scaled_transform |-> Identity, best_list |-> Identity,
                        best_inv_list |-> Identity, fit |-> 5, width |-> 640,
                        height |-> 480]]

\* line 181-189: the sub-dict _write_calibration stores
SubData(c) ==
    [transform |-> c.transform, scaled_transform |-> c.scaled_transform,
     best_scaled_transform |-> c.best_scaled_transform, best_list |-> c.best_list,
     best_inv_list |-> c.best_inv_list, fit |-> c.fit, width |-> FrameW,
     height |-> FrameH]

\* _write_calibration: the file's data with this resolution's entry replaced
write_calibration(file, c) ==
    [k \in DOMAIN file \cup {ResKey(FrameW, FrameH)} |->
        IF k = ResKey(FrameW, FrameH) THEN SubData(c) ELSE file[k]]

\* line 205, 245: only good fits, better than the one the session started with
WriteGate_anyGoodFit(fit, initial_fit) == fit < WriteBelow

WriteGate(fit, initial_fit) == fit < WriteBelow /\ fit < initial_fit

\* _read_calibration, when the file has an entry for this resolution
Loaded(c, data) ==
    [c EXCEPT !.first = FALSE, !.transform = data.transform,
              !.scaled_transform = data.scaled_transform,
              !.best_scaled_transform = data.best_scaled_transform,
              !.best_list = data.best_list, !.best_inv_list = data.best_inv_list,
              !.fit = data.fit, !.best_fit = BestFitOnReset, !.calibrate = FALSE,
              !.initial_fit = data.fit]

\* reset(), line 212-226
reset(c, file) ==
    LET c0 == [c EXCEPT !.counts = [i \in 0..(CalN - 1) |-> 0]]
    IN  IF c.readAtReset /\ ResKey(FrameW, FrameH) \in DOMAIN file
        THEN Loaded(c0, file[ResKey(FrameW, FrameH)])
        ELSE [c0 EXCEPT !.transform = Identity, !.scaled_transform = Identity,
                        !.best_scaled_transform = Identity,
                        !.best_fit = BestFitOnReset, !.best_list = Identity,
                        !.best_inv_list = Identity, !.fit = FitOnReset,
                        !.initial_fit = FitOnReset, !.calibrate = FALSE]

\* line 313: the fit beats the best fit
Improves_orEquals(fit, best_fit) == fit <= best_fit

Improves(fit, best_fit) == fit < best_fit

\* line 296: at least 5 indices have a nonzero count
Enough_four(c) == Cardinality({i \in 0..(CalN - 1) : c.counts[i] > 0}) >= 4

Enough(c) == Cardinality({i \in 0..(CalN - 1) : c.counts[i] > 0}) >= 5

\* _update_homography, with the solver's outcome (solved: t is not None),
\* the number of the transform an update makes, and the fit it measures
update_homography(c, solved, made, fit) ==
    IF ~Enough(c) THEN c
    ELSE LET c1 == IF ~solved THEN c
                   ELSE [c EXCEPT !.transform = made, !.scaled_transform = made,
                                  !.first = FALSE]
             c2 == [c1 EXCEPT !.fit = fit]
         IN  IF Improves(fit, c2.best_fit)
             THEN [c2 EXCEPT !.best_scaled_transform = c2.scaled_transform,
                             !.best_fit = fit,
                             !.best_list = c2.transform,
                             !.best_inv_list = c2.transform]
             ELSE c2

\* _calibrate line 231-237: the first segment, if there is one, is folded
\* into the running mean of the current index
Observed_twice(c, ind, seen) ==
    IF ind % (CalStay + CalDelay) > CalDelay /\ seen
    THEN [c EXCEPT !.counts[c.index] = c.counts[c.index] + 2 * OneCount]
    ELSE c

Observed(c, ind, seen) ==
    IF ind % (CalStay + CalDelay) > CalDelay /\ seen
    THEN [c EXCEPT !.counts[c.index] = c.counts[c.index] + OneCount]
    ELSE c

\* line 240: the period ends at this frame
PeriodEnds_afterDelay(ind) == ind % (CalStay + CalDelay) = CalDelay

PeriodEnds(ind) == ind % (CalStay + CalDelay) = 0

\* line 242: the period that ends is the one of the last index
RoundEnds(c, ind) == PeriodEnds(ind) /\ c.index = CalN - 1

\* line 250-252: the counts seeded for the next round, and the next index
Advanced(c, ind, round) ==
    IF ~PeriodEnds(ind) THEN c
    ELSE [c EXCEPT !.counts = IF round
                              THEN [i \in 0..(CalN - 1) |-> Max(0, SeedBelow - c.fit)]
                              ELSE c.counts,
                   !.index = (c.index + 1) % CalN]

\* line 313-318: the retained best transform or one of its lists is replaced
Replaced(before, after) ==
    \/ after.best_scaled_transform /= before.best_scaled_transform
    \/ after.best_list /= before.best_list
    \/ after.best_inv_list /= before.best_inv_list
    \/ after.best_fit /= before.best_fit

\* what chist becomes when a round ends with the fit measured or not
Refitted(h, refit, fit, snapshot) ==
    IF ~refit THEN [h EXCEPT !.done = h.done + 1]
    ELSE [h EXCEPT !.done = h.done + 1,
                   !.refits = h.refits + 1,
                   !.lowest = IF h.refits = 0 \/ fit < h.lowest THEN fit ELSE h.lowest,
                   !.example = IF h.example = h.refits /\ h.refits < Len(ExampleFits)
                                   /\ fit = ExampleFits[h.refits + 1]
                               THEN h.refits + 1 ELSE Off,
                   !.taken = IF snapshot THEN h.taken \cup {h.refits + 1} ELSE h.taken]

\* what chist records of the pace of the calibration: the calibrating frames
\* since the last round end (since), the calibrating frames the last round
\* took (span), and the observations folded in the current period (folded)
Paced(h, ind, round, observed) ==
    [h EXCEPT !.since = IF round THEN 0 ELSE h.since + 1,
              !.span = IF round THEN h.since + 1 ELSE h.span,
              !.folded = IF PeriodEnds(ind) THEN 0
                         ELSE IF observed THEN h.folded + 1 ELSE h.folded]

\* process_frame(frame, frame_ind) with the inputs of the frame: whether the
\* segmenter reports a segment, whether the solver finds a homography, and
\* the fit that is measured
CalProcessFrame(seen, solved, fit) ==
    /\ CalFrame
    /\ chist.done < MaxRefits
    /\ cframe' = (cframe + 1) % (CalStay + CalDelay)
    /\ IF ~cal.calibrate
       THEN /\ ccall' = [op |-> "process_frame", round |-> FALSE, refit |-> FALSE,
                         snapshot |-> FALSE, wrote |-> FALSE, before |-> cfile,
                         earlier |-> chist.refits, lowest |-> chist.lowest,
                         fit |-> fit, solved |-> solved]
            /\ UNCHANGED <<cal, cfile, chist>>
       ELSE LET c1 == Observed(cal, cframe, seen)
                round == RoundEnds(c1, cframe)
                c2 == IF round THEN update_homography(c1, solved, chist.done + 1, fit)
                      ELSE c1
                refit == round /\ Enough(c1)
                snapshot == Replaced(c1, c2)
                wrote == round /\ WriteGate(c2.fit, c2.initial_fit)
            IN  /\ cal' = Advanced(c2, cframe, round)
                /\ cfile' = IF wrote THEN write_calibration(cfile, c2) ELSE cfile
                /\ chist' = Paced(IF round THEN Refitted(chist, refit, fit, snapshot)
                                   ELSE chist,
                                   cframe, round, c1.counts # cal.counts)
                /\ ccall' = [op |-> "process_frame", round |-> round, refit |-> refit,
                             snapshot |-> snapshot, wrote |-> wrote, before |-> cfile,
                             earlier |-> chist.refits, lowest |-> chist.lowest,
                             fit |-> fit, solved |-> solved]

\* the inputs of a frame that the frame makes use of
CalInputs(seen, solved, fit) ==
    /\ seen \/ (cal.calibrate /\ cframe % (CalStay + CalDelay) > CalDelay
                /\ cal.index \in MayMiss)
    /\ (solved /\ fit = 5) \/ (cal.calibrate /\ RoundEnds(cal, cframe) /\ Enough(cal))
    /\ solved \/ fit = 5

\* play(), pause() and reset() are called between two periods
Between == cframe = 1 /\ chist.calls < MaxCalCalls

\* play(), line 148-149
CalPlay ==
    /\ CalFrame
    /\ Between
    /\ cal' = [cal EXCEPT !.calibrate = TRUE]
    /\ ccall' = [op |-> "play", round |-> FALSE, refit |-> FALSE, snapshot |-> FALSE,
                 wrote |-> FALSE, before |-> cfile, earlier |-> chist.refits,
                 lowest |-> chist.lowest, fit |-> cal.fit, solved |-> TRUE]
    /\ chist' = [chist EXCEPT !.calls = chist.calls + 1]
    /\ UNCHANGED <<cfile, cframe>>

\* pause(), line 203-208
CalPause ==
    /\ CalFrame
    /\ Between
    /\ cfile' = IF WriteGate(cal.fit, cal.initial_fit) THEN write_calibration(cfile, cal)
                ELSE cfile
    /\ cal' = [cal EXCEPT !.calibrate = FALSE]
    /\ ccall' = [op |-> "pause", round |-> FALSE, refit |-> FALSE, snapshot |-> FALSE,
                 wrote |-> WriteGate(cal.fit, cal.initial_fit), before |-> cfile,
                 earlier |-> chist.refits, lowest |-> chist.lowest, fit |-> cal.fit,
                 solved |-> TRUE]
    /\ chist' = [chist EXCEPT !.calls = chist.calls + 1]
    /\ UNCHANGED cframe

\* reset(), line 212-226
CalReset ==
    /\ CalFrame
    /\ Between
    /\ cal' = reset(cal, cfile)
    /\ chist' = [chist EXCEPT !.calls = chist.calls + 1, !.refits = 0, !.lowest = FitOnReset, !.example = 0,
                              !.taken = {}]
    /\ ccall' = [op |-> "reset", round |-> FALSE, refit |-> FALSE, snapshot |-> FALSE,
                 wrote |-> FALSE, before |-> cfile, earlier |-> 0,
                 lowest |-> FitOnReset, fit |-> cal'.fit, solved |-> TRUE]
    /\ UNCHANGED <<cfile, cframe>>

\* SpatialCalibrationProcessor(camera, N=5, delay=1, stay=3, readAtInit=True),
\* with no snapshot file or with one that another resolution wrote:
\* __init__ ends with reset() (line 122), which finds no entry to read
InitCalibration ==
    /\ NoController /\ NoOffload /\ NoTracker /\ NoLines /\ NoBackground /\ NoUtils
    /\ NoDetectors
    /\ cfile \in {[k \in {} |-> 0], OtherResolution}
    /\ cal = reset([calibrate |-> FALSE, first |-> TRUE, index |-> 0,
                     readAtReset |-> TRUE, counts |-> [i \in 0..(CalN - 1) |-> 0],
                     transform |-> Identity, scaled_transform |-> Identity,
                     best_scaled_transform |-> Identity, best_list |-> Identity,
                     best_inv_list |-> Identity, fit |-> FitOnReset,
                     initial_fit |-> FitOnReset, best_fit |-> BestFitOnReset], cfile)
    /\ cframe = 0
    /\ chist = [calls |-> 0, done |-> 0, refits |-> 0, lowest |-> FitOnReset, example |-> 0,
                taken |-> {}, since |-> 0, span |-> 0, folded |-> 0]
    /\ ccall = [op |-> "init", round |-> FALSE, refit |-> FALSE, snapshot |-> FALSE,
                wrote |-> FALSE, before |-> cfile, earlier |-> 0, lowest |-> FitOnReset,
                fit |-> FitOnReset, solved |-> TRUE]

NextCalibration ==
    \/ \E seen \in BOOLEAN, solved \in BOOLEAN, fit \in FitValues :
           CalInputs(seen, solved, fit) /\ CalProcessFrame(seen, solved, fit)
    \/ CalPlay
    \/ CalPause
    \/ CalReset

SpecCalibration == InitCalibration /\ [][NextCalibration]_vars

(***************************************************************************)
(* DarkflowDetectionProcessor (processor.py 1254-1293) and its tracker,    *)
(* which is constructed without flow tracking.  A frame's detections are   *)
(* the items the network returns, in its order.                            *)
(***************************************************************************)
FirstId == 1000                  \* self.id_i = 1000, line 1259
DarkflowTicksPerObs == 5         \* stride * 5 / 2 ticks for stride = 1, line 1264 and 456
DetectedLabels == {"reactor"}    \* the labels of the network's items
MaxItems == 2                    \* items in one frame's result

\* the rectangles of the items: the same place again, and another place
DetectedRects == {<<0, 0, 4, 4>>, <<8, 8, 4, 4>>}

\* the results return_predict can give: up to MaxItems items in any order
Results ==
    UNION {[1..n -> DetectedRects \X DetectedLabels] : n \in 0..MaxItems}

\* line 1291-1292: the counter after a track() call that returned new_obj
NextId_always(id_i, new_obj) == id_i + 1

NextId(id_i, new_obj) == IF new_obj THEN id_i + 1 ELSE id_i

\* line 1286-1292: _tracking and id_i after the items from i on
RECURSIVE Detected(_, _, _, _, _)
Detected(tr, tpo, id_i, result, i) ==
    IF i > Len(result) THEN [tracking |-> tr, id_i |-> id_i]
    ELSE LET brect == result[i][1]
             label == result[i][2]
             new_obj == Existing(tr, label, id_i, brect) = 0
         IN  Detected(Tracked(tr, tpo, brect, label, id_i), tpo,
                      NextId(id_i, new_obj), result, i + 1)

\* the ids of the objects that were appended to _tracking
Appended(before, after) == [k \in 1..(Len(after) - Len(before)) |-> after[Len(before) + k].id]

\* DarkflowDetectionProcessor.process_frame(frame, frame_ind)
DarkflowProcessFrame(result) ==
    /\ DfFrame
    /\ darkflow.frames < MaxDfFrames
    /\ LET r == Detected(tracking, ticks_per_obs, darkflow.id_i, result, 1)
       IN  /\ tracking' = r.tracking
           /\ darkflow' = [darkflow EXCEPT
                              !.id_i = r.id_i,
                              !.frames = darkflow.frames + 1,
                              !.created = darkflow.created \o Appended(tracking, r.tracking)]
           /\ dfcall' = [op |-> "process_frame", items |-> Len(result),
                         before |-> darkflow.id_i,
                         made |-> Len(r.tracking) - Len(tracking)]
    /\ ntrack' = ntrack + Len(result)
    /\ UNCHANGED <<ticks, prev_gray, do_tracking, ticks_per_obs, removed, connections, tcall>>

\* the tracker's process_frame, which ages and deletes the objects
DarkflowTrackerTick == ProcessFrame([i \in 1..Len(tracking) |-> FALSE], NoFlow)

\* DarkflowDetectionProcessor(camera, background, stride=1)
InitDarkflow ==
    /\ NoController /\ NoOffload /\ NoLines /\ NoBackground /\ NoCalibration /\ NoUtils
    /\ NoDetection /\ NoDial
    /\ tracking = <<>> /\ ticks = 0 /\ prev_gray = FALSE
    /\ do_tracking = FALSE
    /\ ticks_per_obs = DarkflowTicksPerObs
    /\ removed = <<>> /\ ntrack = 0 /\ connections = <<>>
    /\ tcall = [op |-> "init"]
    /\ darkflow = [id_i |-> FirstId, frames |-> 0, created |-> <<>>]
    /\ dfcall = [op |-> "init", items |-> 0, before |-> FirstId, made |-> 0]

NextDarkflow ==
    \/ \E result \in Results : DarkflowProcessFrame(result)
    \/ DarkflowTrackerTick

SpecDarkflow == InitDarkflow /\ [][NextDarkflow]_vars

(***************************************************************************)
(* DetectionProcessor (processor.py 1041-1230) with its tracker, to which  *)
(* a dial reader is attached by default.  process_frame schedules an       *)
(* identification task.  The event loop runs the first task of its queue   *)
(* until that task suspends (asyncio.sleep(0)), which makes it the last.   *)
(* What the matcher finds for a template in a region is an input of the    *)
(* step.                                                                   *)
(***************************************************************************)
DetStride == 3                   \* stride=3, line 1043
min_match == 6                   \* min_match=6, line 1044
DetectionTicksPerObs == 12       \* stride * 2 * len(img_db) * 1.0 / 2 ticks, line 1052 and 456
NoId == -4                       \* the template has no attribute id
Region1 == <<0, 0, 4, 4>>
Region2 == <<8, 8, 4, 4>>

\* the segments of a frame that have more than 3 descriptors (line 1144-1146)
RegionLists == {<<>>, <<Region1>>, <<Region2>>}

\* the template databases: two labelled templates, in either order, that
\* carry an id, and the templates as ImageDB.store_img makes them
\* (utils.py 13-22, 86), which have none
TemplateLists ==
    {<<[label |-> "a", id |-> 1], [label |-> "b", id |-> 2]>>,
     <<[label |-> "b", id |-> 2], [label |-> "a", id |-> 1]>>,
     <<[label |-> "a", id |-> NoId], [label |-> "b", id |-> NoId]>>}

\* what matching one template gives: the number of matches that pass the
\* ratio test, whether findHomography returns a matrix, the score, and
\* whether a cv2 call raises cv2.error
Scores == {0, 2, 5}

Outcomes ==
    {[raises |-> FALSE, good |-> min_match, M |-> FALSE, score |-> 0],
     [raises |-> FALSE, good |-> min_match + 1, M |-> FALSE, score |-> 0],
     [raises |-> TRUE, good |-> 0, M |-> FALSE, score |-> 0]}
    \cup {[raises |-> FALSE, good |-> min_match + 1, M |-> TRUE, score |-> x] : x \in Scores}

\* line 1193: enough good points
EnoughMatches(good) == good > min_match

\* line 1215: the match is accepted
Accepted_orZero(score) == score >= 0

Accepted(score) == score > 0

\* line 1167-1170: an exposed object has the template's id
TemplateInPlay(t) == \E i \in 1..Len(TrackerObjects) : TrackerObjects[i].id = t.id

\* line 1172: the template is skipped on this frame
Skipped(t, ind) == TemplateInPlay(t) /\ ind % (DetStride * 2) /= 0

\* line 1148: max(rect_features, key=score), the first of the highest
RECURSIVE BestOf(_, _, _)
BestOf(rf, i, b) ==
    IF i > Len(rf) THEN b
    ELSE BestOf(rf, i + 1, IF rf[i].score > rf[b].score THEN i ELSE b)

\* line 1147-1153: the region's templates are done; its best feature is
\* added to the pass's features and the pass goes to the next region
Closed(p) ==
    IF Len(p.rect_features) = 0
    THEN [p EXCEPT !.r = p.r + 1, !.k = 1, !.rect_features = <<>>]
    ELSE [p EXCEPT !.r = p.r + 1, !.k = 1, !.rect_features = <<>>,
                   !.found = TRUE,
                   !.features = Append(p.features,
                                       p.rect_features[BestOf(p.rect_features, 1, 1)])]

\* the pass after the template at k: the next template, or the next region
NextTemplate(p, ntemplates) ==
    IF p.k < ntemplates THEN [p EXCEPT !.k = p.k + 1] ELSE Closed(p)

\* the camera loop's task in the event loop's queue
MainTask == [state |-> "main", ind |-> 0, regions |-> <<>>, r |-> 1, k |-> 1,
             rect_features |-> <<>>, features |-> <<>>, found |-> FALSE]

\* the task that runs: the first of the queue
Running == detector.queue[1]

NoMatch == [op |-> "none", label |-> "", id |-> 0, good |-> 0, M |-> FALSE,
            score |-> 0, recorded |-> FALSE, tracked |-> FALSE, before |-> <<>>,
            closed |-> FALSE, rect |-> <<>>, accepted |-> <<>>, kept |-> <<>>,
            raised |-> "", running |-> 0, queued |-> 0]

\* the passes that are started and not finished
InProgress(q) == {i \in 1..Len(q) : q[i].state = "running"}

\* process_frame(frame, frame_ind), line 1106-1110, called by the camera
\* loop, which goes on without suspending
DetProcessFrame(regions) ==
    /\ DetFrame /\ UNCHANGED trkVars
    /\ Running.state = "main"
    /\ detector.frames < MaxDetFrames
    /\ detector' = [detector EXCEPT
                       !.frames = detector.frames + 1,
                       !.queue = IF detector.ready
                                 THEN Append(detector.queue,
                                             [state |-> "scheduled",
                                              ind |-> DetStride * detector.frames,
                                              regions |-> regions, r |-> 1, k |-> 1,
                                              rect_features |-> <<>>, features |-> <<>>,
                                              found |-> FALSE])
                                 ELSE detector.queue]
    /\ dcall' = [NoMatch EXCEPT !.op = "process_frame",
                                !.running = Cardinality(InProgress(detector.queue))]

\* the camera loop suspends (controller.py line 133, asyncio.sleep(0)): the
\* other tasks of the queue run before it goes on
DetYield ==
    /\ DetFrame /\ UNCHANGED trkVars
    /\ Running.state = "main"
    /\ Len(detector.queue) > 1
    /\ detector' = [detector EXCEPT !.queue = Tail(detector.queue) \o <<Running>>]
    /\ dcall' = [NoMatch EXCEPT !.op = "yield",
                                !.running = Cardinality(InProgress(detector.queue))]

\* the event loop starts a scheduled task: _identify_features line 1139-1143
DetStart ==
    /\ DetFrame /\ UNCHANGED trkVars
    /\ Running.state = "scheduled"
    /\ detector' = [detector EXCEPT !.ready = FALSE, !.queue[1].state = "running"]
    /\ dcall' = [NoMatch EXCEPT !.op = "start",
                                !.running = Cardinality(InProgress(detector'.queue))]

\* the task goes on after the last region: line 1154-1156
DetFinish ==
    /\ DetFrame /\ UNCHANGED trkVars
    /\ Running.state = "running"
    /\ Running.r > Len(Running.regions)
    /\ detector' = [detector EXCEPT
                       !.features = IF Running.found THEN Running.features
                                    ELSE detector.features,
                       !.ready = TRUE,
                       !.queue = Tail(detector.queue)]
    /\ dcall' = [NoMatch EXCEPT !.op = "finish",
                                !.running = Cardinality(InProgress(detector'.queue))]

\* the task goes on with the template at k of the region at r:
\* _process_frame_view line 1164-1229, up to the next asyncio.sleep(0),
\* after which it is the last of the queue, or, where the loop continues
\* without one, up to the next template
DetMatch(o) ==
    /\ DetFrame
    /\ Running.state = "running"
    /\ Running.r <= Len(Running.regions)
    /\ LET p == Running
           t == detector.templates[p.k]
           rect == p.regions[p.r]
           n == Len(detector.templates)
           rdy == IF p.k = 1 THEN FALSE ELSE detector.ready
           noid == t.id = NoId
           skipped == ~noid /\ Skipped(t, p.ind)
           enough == ~noid /\ ~skipped /\ ~o.raises /\ EnoughMatches(o.good)
           accepted == enough /\ o.M /\ Accepted(o.score)
           yields == ~noid /\ ~skipped /\ ~(enough /\ ~o.M)
           rf == IF accepted
                 THEN Append(p.rect_features,
                             [label |-> t.label, id |-> t.id, score |-> o.score,
                              rect |-> rect])
                 ELSE p.rect_features
           q == NextTemplate([p EXCEPT !.rect_features = rf], n)
       IN  /\ (noid \/ skipped) => o = [raises |-> TRUE, good |-> 0, M |-> FALSE,
                                        score |-> 0]
           /\ tracking' = IF accepted
                          THEN Tracked(tracking, ticks_per_obs, rect, t.label, t.id)
                          ELSE tracking
           /\ detector' = [detector EXCEPT
                              !.ready = rdy,
                              !.queue = IF noid THEN Tail(detector.queue)
                                        ELSE IF yields
                                             THEN Append(Tail(detector.queue), q)
                                             ELSE <<q>> \o Tail(detector.queue)]
           /\ dcall' = [op |-> "match", label |-> t.label, id |-> t.id,
                        good |-> o.good, M |-> o.M, score |-> o.score,
                        recorded |-> rf /= p.rect_features,
                        tracked |-> accepted, before |-> tracking,
                        closed |-> ~noid /\ p.k = n, rect |-> rect,
                        accepted |-> IF ~noid /\ p.k = n THEN rf ELSE <<>>,
                        kept |-> IF ~noid /\ p.k = n /\ Len(rf) > 0
                                 THEN <<q.features[Len(q.features)]>> ELSE <<>>,
                        raised |-> IF noid THEN "AttributeError"
                                   ELSE IF ~skipped /\ o.raises THEN "cv2.error" ELSE "",
                        running |-> Cardinality(InProgress(detector'.queue)),
                        queued |-> Len(detector.queue)]
    /\ ntrack' = IF dcall'.tracked THEN ntrack + 1 ELSE ntrack
    /\ UNCHANGED <<ticks, prev_gray, do_tracking, ticks_per_obs, removed, connections, tcall>>

\* DetectionProcessor(camera, background, img_db, descriptor) over a
\* database of two templates; the camera loop runs
InitDetection ==
    /\ NoController /\ NoOffload /\ NoLines /\ NoBackground /\ NoCalibration /\ NoUtils
    /\ NoDarkflow /\ NoDial
    /\ tracking = <<>> /\ ticks = 0 /\ prev_gray = FALSE
    /\ do_tracking = TRUE
    /\ ticks_per_obs = DetectionTicksPerObs
    /\ removed = <<>> /\ ntrack = 0 /\ connections = <<>>
    /\ tcall = [op |-> "init"]
    /\ \E tl \in TemplateLists :
           detector = [ready |-> TRUE, features |-> <<>>, templates |-> tl,
                       queue |-> <<MainTask>>, frames |-> 0]
    /\ dcall = [NoMatch EXCEPT !.op = "init"]

NextDetection ==
    \/ \E regions \in RegionLists : DetProcessFrame(regions)
    \/ DetYield
    \/ DetStart
    \/ DetFinish
    \/ \E o \in Outcomes : DetMatch(o)

SpecDetection == InitDetection /\ [][NextDetection]_vars

(***************************************************************************)
(* DialProcessor (processor.py 1496-1556) as the dial reader of a          *)
(* TrackerProcessor (line 462-463).  The value the dial handler reports is *)
(* an input of process_frame.                                              *)
(***************************************************************************)
InitTemp == 300                  \* initialTemperatureValue = 300, line 1498
NoHandler == "None"              \* self.temperatureHandler = None
DialHandler == "DialHandler"     \* the handler of the first device found
DialValues == {100, 800}         \* tempLowerBound, tempUpperBound
\* the label and id of a template, and of a Darkflow item
TrackedNames == {<<"conditions", 1>>, <<"a", 1000>>}

\* line 1516: the objects reset() creates
ConditionsObjects == <<[id |-> CONDITIONS_ID, label |-> "conditions",
                        weight |-> <<InitTemp, 1>>]>>

\* line 1524-1527: an object's weight after process_frame
Reading_always(handler, value, o) == <<value, 1>>

Reading(handler, value, o) ==
    IF handler /= NoHandler /\ o.label = "conditions" THEN <<value, 1>> ELSE o.weight

\* TrackerProcessor.objects (line 419-425) with this dial reader
ExposedObjects_withDial ==
    [i \in 1..Len(dial.objects) |-> [id |-> dial.objects[i].id,
                                     label |-> dial.objects[i].label]]
    \o [i \in 1..Len(tracking) |-> [id |-> tracking[i].id, label |-> tracking[i].label]]

\* DialProcessor.process_frame(frame, frame_ind)
DialProcessFrame(value) ==
    /\ DialFrame /\ UNCHANGED trkVars
    /\ dial.ticks < MaxDialTicks
    /\ dial' = [dial EXCEPT
                   !.ticks = dial.ticks + 1,
                   !.objects = [i \in 1..Len(dial.objects) |->
                                   [dial.objects[i] EXCEPT
                                       !.weight = Reading(dial.handler, value,
                                                          dial.objects[i])]]]
    /\ dlcall' = [op |-> "process_frame", value |-> value, returned |-> TRUE]

\* play() and pause(), line 1543-1553: forwarded to the handler, if any
DialPlayPause(op) ==
    /\ DialFrame /\ UNCHANGED trkVars
    /\ dlcall.op = "process_frame"
    /\ dial' = dial
    /\ dlcall' = [op |-> op, value |-> 0, returned |-> TRUE]

\* TrackerProcessor(camera, stride, background, delete_threshold_period=5,
\* do_tracking=False) with readDials left at True: DialProcessor(camera,
\* stride=1), whose reset() finds a device or none
InitDial ==
    /\ NoController /\ NoOffload /\ NoLines /\ NoBackground /\ NoCalibration /\ NoUtils
    /\ NoDarkflow /\ NoDetection
    /\ tracking = <<>> /\ ticks = 0 /\ prev_gray = FALSE
    /\ do_tracking = FALSE
    /\ ticks_per_obs = DarkflowTicksPerObs
    /\ removed = <<>> /\ ntrack = 0 /\ connections = <<>>
    /\ tcall = [op |-> "init"]
    /\ \E h \in {NoHandler, DialHandler} :
           dial = [handler |-> h, objects |-> ConditionsObjects, ticks |-> 0]
    /\ dlcall = [op |-> "init", value |-> 0, returned |-> TRUE]

NextDial ==
    \/ \E value \in DialValues : DialProcessFrame(value)
    \/ \E op \in {"play", "pause"} : DialPlayPause(op)
    \/ \E r \in {Region1, Region2}, n \in TrackedNames : Track(r, n[1], n[2])
    \/ DarkflowTrackerTick

SpecDial == InitDial /\ [][NextDial]_vars

(***************************************************************************)
(* utils.intersecting (utils.py 134-143).  A rectangle is <<x, y, w, h>>   *)
(* in whole pixels; the threshold is a fraction <<n, d>> with d > 0, and   *)
(* intArea / minArea > n / d is compared as intArea * d > n * minArea      *)
(* (minArea > 0): for whole-pixel areas the float division changes         *)
(* nothing, a quotient that equals the threshold has the threshold's       *)
(* float value.                                                            *)
(***************************************************************************)
\* line 141: intArea / minArea > threshold
Exceeds_orEqual(intArea, minArea, threshold) ==
    intArea * threshold[2] >= threshold[1] * minArea

Exceeds(intArea, minArea, threshold) ==
    intArea * threshold[2] > threshold[1] * minArea

intersecting(a, b, threshold) ==
    LET dx == Min(a[1] + a[3], b[1] + b[3]) - Max(a[1], b[1])
        dy == Min(a[2] + a[4], b[2] + b[4]) - Max(a[2], b[2])
        intArea == dx * dy
        minArea == Min(a[3] * a[4], b[3] * b[4])
    IN  /\ dx >= 0 /\ dy >= 0
        /\ minArea > 0
        /\ Exceeds(intArea, minArea, threshold)

RectOrigins == {0, 5, 12}
RectSides == {0, 5, 10}
RectInputs == {<<x, y, w, h>> : x \in RectOrigins, y \in RectOrigins,
                                w \in RectSides, h \in RectSides}
DefaultThreshold == <<1, 4>>                              \* threshold=0.25, line 134
Thresholds == {<<0, 1>>, DefaultThreshold, <<1, 2>>}

\* the call intersecting(a, b, threshold) with the arguments at hand
Intersecting ==
    /\ UtlFrame
    /\ icall.op = "args"
    /\ icall' = [icall EXCEPT !.op = "intersecting",
                              !.result = intersecting(icall.a, icall.b, icall.threshold)]

InitIntersecting ==
    /\ NoController /\ NoOffload /\ NoTracker /\ NoLines /\ NoBackground /\ NoCalibration
    /\ NoDetectors /\ NoImageDB
    /\ \E a \in RectInputs, b \in RectInputs, t \in Thresholds :
           icall = [op |-> "args", a |-> a, b |-> b, threshold |-> t, result |-> FALSE]

NextIntersecting == Intersecting

SpecIntersecting == InitIntersecting /\ [][NextIntersecting]_vars

(***************************************************************************)
(* utils.ImageDB (utils.py 10-95).  An Image is its __dict__: the function *)
(* from its attribute names to their values.  A path is the sequence of    *)
(* its parts, a pickle file is the state __getstate__ returned, and the    *)
(* files of template_dir are kept by path.  An image's pixels, polygon and *)
(* keypoints are names.                                                    *)
(***************************************************************************)
MaxImages == 3                   \* images held by one ImageDB
NoValue == "None"                \* Python's None where a name is expected
TemplateDir == <<"templates">>
Imgs == {"img1", "img2"}
DbLabels == {"a", "b"}
RelPaths == {<<NoValue>>, <<"reactor", ".jpg">>}

\* Image.__init__(path, img, label, poly, keypoints), line 15-22
Image(path, img, label, poly, keypoints) ==
    [img |-> img, label |-> label, poly |-> poly, path |-> path, keypoints |-> keypoints,
     features |-> NoValue, color |-> <<255, 255, 255>>]

\* line 23-28: the pickled state has neither keypoints nor features
getstate(o) == [a \in DOMAIN o \ {"keypoints", "features"} |-> o[a]]

\* line 30-33: the pickled state, with keypoints and features None
setstate(odict) ==
    [a \in DOMAIN odict \cup {"keypoints", "features"} |->
        IF a \in {"keypoints", "features"} THEN NoValue ELSE odict[a]]

\* path.split('.jpg')[0]: the parts before the first '.jpg'
RECURSIVE BeforeJpg(_, _)
BeforeJpg(path, i) ==
    IF i > Len(path) \/ path[i] = ".jpg" THEN SubSeq(path, 1, i - 1)
    ELSE BeforeJpg(path, i + 1)

\* line 82-86: the path store_img gives the image
StorePath(img, rel_path) ==
    LET rel == IF rel_path = <<NoValue>> THEN <<"sha256", img>> ELSE rel_path
    IN  BeforeJpg(TemplateDir \o rel, 1)

\* line 93-94: the pickle file path + '.pickle' is written
Dumped(files, o) ==
    [q \in DOMAIN files \cup {o.path \o <<".pickle">>} |->
        IF q = o.path \o <<".pickle">> THEN getstate(o) ELSE files[q]]

\* the attribute name is set on the object
HasAttr(o, name) == name \in DOMAIN o

\* store_img(img, label, poly, keypoints, None, rel_path)
StoreImg(img, label, rel_path) ==
    /\ DbFrame
    /\ Len(imagedb.images) < MaxImages
    /\ LET o == Image(StorePath(img, rel_path), img, label, "poly", NoValue)
       IN  /\ imagedb' = [images |-> Append(imagedb.images, o),
                          files |-> Dumped(imagedb.files, o)]
           /\ dbcall' = [op |-> "store_img", path |-> o.path]

\* set_descriptor(descriptor), line 69-71
SetDescriptor ==
    /\ DbFrame
    /\ imagedb' = [imagedb EXCEPT !.images =
                       [i \in 1..Len(imagedb.images) |->
                           [imagedb.images[i] EXCEPT !.keypoints = "detected"]]]
    /\ dbcall' = [op |-> "set_descriptor", path |-> <<>>]

\* ImageDB(template_dir) constructed anew: _load reads every pickle file of
\* the directory, in the order glob reports them, which is any order
Load(order) ==
    /\ DbFrame
    /\ DOMAIN order = 1..Cardinality(DOMAIN imagedb.files)
    /\ \A i, j \in DOMAIN order : order[i] = order[j] => i = j
    /\ imagedb' = [imagedb EXCEPT !.images =
                       [i \in DOMAIN order |-> setstate(imagedb.files[order[i]])]]
    /\ dbcall' = [op |-> "load", path |-> <<>>]

\* ImageDB(template_dir) over a directory without pickle files
InitImageDB ==
    /\ NoController /\ NoOffload /\ NoTracker /\ NoLines /\ NoBackground /\ NoCalibration
    /\ NoDetectors
    /\ icall = [op |-> "init"]
    /\ imagedb = [images |-> <<>>, files |-> <<>>]
    /\ dbcall = [op |-> "init", path |-> <<>>]

NextImageDB ==
    \/ \E img \in Imgs, label \in DbLabels, rel_path \in RelPaths :
           StoreImg(img, label, rel_path)
    \/ SetDescriptor
    \/ \E n \in 0..MaxImages : \E order \in [1..n -> DOMAIN imagedb.files] : Load(order)

SpecImageDB == InitImageDB /\ [][NextImageDB]_vars

(***************************************************************************)
(* Claims about the Controller, checked under Spec                         *)
(***************************************************************************)
AcceptedModes == {"detection", "background"}     \* the values update_settings acts on

\* C1: an update_settings call whose 'mode' is not an accepted mode leaves
\* settings.mode, the controller's processors and the camera's processor list
\* as they were, and settings.mode is in Controller.modes in every state.
C1_InvalidModeRetained ==
    /\ settings.mode \in modes
    /\ [][ /\ settings'.mode \in modes
           /\ (call'.op = "update_settings" /\ call'.mode \notin AcceptedModes
                                            /\ call'.mode # NoKey)
                => /\ settings'.mode = settings.mode
                   /\ processors' = processors
                   /\ frame_processors' = frame_processors ]_vars

\* an invalid mode was sent after start-up and the mode is the one held before
C1_Witness ==
    /\ call.op = "update_settings" /\ call.mode = "bogus" /\ ~call.raised
    /\ settings.mode = "background" /\ Len(processors) = 1

\* C2: a main-loop iteration that starts paused does not call Camera.update,
\* does not increment the tick counter and publishes nothing; an iteration
\* that starts with pause false calls Camera.update.
C2_PauseGatesCamera ==
    [][ call'.op = "update_loop"
          => /\ settings.pause
                => /\ cam_updates' = cam_updates
                   /\ frame_ind' = frame_ind
                   /\ vision_state' = vision_state
                   /\ published' = published
                   /\ bgp' = bgp
             /\ ~settings.pause => cam_updates' = cam_updates + 1 ]_vars

\* a paused iteration ran after the loop had already published
C2_Witness ==
    /\ call.op = "update_loop" /\ call.pause = "True" /\ settings.pause
    /\ vision_state.time >= 1 /\ Len(published) >= 1

\* C3: the tick counter starts at 0, never decreases, increases by exactly 1
\* in the iterations whose camera update succeeds and in no other step; a
\* message is published exactly in those iterations, and the published ticks
\* are 1, 2, 3, ... in order.
C3_TickAndPublish ==
    /\ vision_state.time = 0 /\ published = <<>>
    /\ [][ /\ vision_state'.time \in {vision_state.time, vision_state.time + 1}
           /\ (vision_state'.time = vision_state.time + 1)
                <=> (call'.op = "update_loop" /\ call'.cam_ok)
           /\ (vision_state'.time = vision_state.time + 1)
                <=> (published' # published)
           /\ published' # published => Len(published') = Len(published) + 1
           /\ Len(published') = vision_state'.time
           /\ \A i \in 1..Len(published') : published'[i].time = i ]_vars

\* three messages were published and the last iteration had no frame
C3_Witness ==
    /\ Len(published) = 3 /\ published[3].time = 3
    /\ call.op = "update_loop" /\ ~call.cam_ok /\ call.pause = "False"

\* C5 (as claimed): after a call of update_settings with mode background or
\* detection, no processor registered before the call other than the crop
\* processor is still in the camera's list, and the list holds exactly the
\* crop processor (if any) and the processors of the new mode.
C5_SwitchDeregistersAll ==
    [][ (call'.op = "update_settings" /\ call'.mode \in AcceptedModes)
          => /\ \A p \in Range(frame_processors) :
                   p.cls # "CropProcessor" => p \notin Range(frame_processors')
             /\ Cardinality({p \in Range(frame_processors') : p.cls # "CropProcessor"})
                   = IF call'.mode = "background" THEN 1 ELSE 5 ]_vars

\* C6 (as claimed): a switch to detection while a Background Processor with a
\* computed background is active completes with settings.mode = detection, a
\* Detection Processor as the only owned processor, and that background kept
\* for the new processor.
C6_DetectionReusesBackground ==
    [][ (/\ call'.op = "update_settings" /\ call'.mode = "detection"
         /\ \E p \in Range(processors) :
               p.cls = "BackgroundProcessor" /\ bgp[p.id].background # None)
          => /\ settings'.mode = "detection"
             /\ Len(processors') = 1 /\ processors'[1].cls = "DetectionProcessor"
             /\ \E p \in Range(processors) :
                   p.cls = "BackgroundProcessor" /\ background' = bgp[p.id].background
        ]_vars

(***************************************************************************)
(* Claims about the offload sub-protocol, checked under SpecOffload        *)
(***************************************************************************)
\* the tasks that obtained the lock and went on to read the response
PastAcquire == {k \in 1..Len(tasks) : tasks[k].pc \in {"recv", "release", "done"}}

\* C7 (as claimed): a task obtains the lock, reads and handles a response
\* only after the worker has processed that task's request and released
\* the lock for it.
C7_OwnerProceedsAfterWorker ==
    /\ \A k \in PastAcquire : k \in finished
    /\ \A i \in 1..Len(handled) : handled[i].task \in finished

\* requests sent to the worker and not yet answered and handled
Outstanding == {k \in 1..Len(tasks) : tasks[k].pc \in {"acquire", "waiting", "recv"}}

\* C8 (as claimed): at most one request is outstanding at any time, and each
\* result handled by a task is the response to the request that task sent.
C8_OneOutstandingMatched ==
    /\ Cardinality(Outstanding) <= 1
    /\ \A i \in 1..Len(handled) : handled[i].answers = handled[i].task

\* C9 (as claimed): close() sends the sentinel and returns after the join
\* with the worker having read the sentinel and left its loop; the worker
\* leaves its loop for the sentinel only.
C9_CloseStopsWorker ==
    /\ close_pc # "raised"
    /\ close_pc = "done" => wpc = "exited"
    /\ wpc = "exited" => wcur = Msg(0, SENTINEL)

\* no request is on its way: every task that was queued has ended, the
\* worker waits for the next request and both directions of the pipe are empty
Idle ==
    /\ \A k \in 1..Len(tasks) : tasks[k].pc \in {"done", "failed"}
    /\ wpc = "recv" /\ o2w = <<>> /\ w2o = <<>> /\ running = 0

\* C37 (as claimed): the worker never releases a lock that nobody holds, no
\* task of the owner ends in an exception or sits in recv() with no worker
\* left to answer, every request that was sent is answered by the worker and
\* handled, and once the requests are completed the lock and the pipe are as
\* they were before the first one.
C37_LockIsCompletionSignal ==
    /\ wpc # "crashed"
    /\ \A k \in 1..Len(tasks) : tasks[k].pc # "failed"
    /\ \A k \in 1..Len(tasks) :
           tasks[k].pc = "done" => \E i \in 1..Len(handled) : handled[i].answers = k
    /\ Idle => lock = 1 /\ holder = "none"

(***************************************************************************)
(* Claims about the published scene and the tracker, checked under         *)
(* SpecTracker                                                             *)
(***************************************************************************)
\* the objects exposed by the processors registered with the camera: those
\* of the Detection Processor's tracker (DetectionProcessor.objects)
ExposedObjects ==
    IF \E p \in Range(frame_processors) : p.cls = "DetectionProcessor"
    THEN TrackerObjects
    ELSE <<>>

Floor(h) == h \div Half

C16_SingleDetectionNeverConfirmed ==
    \A i \in 1..Len(lines) :
        /\ lines[i].born < lines[i].last
        /\ lines[i].born < lines[i].conf

\* a line was detected in one round only and has left the detector, while
\* another line is confirmed
C16_Witness ==
    /\ lines # <<>>
    /\ \E d \in dropped : d.tier = "staged" /\ d.born = d.last

\* C17: a line staged in round r and matched by a detection in round r+1 is
\* in the confirmed set at the end of round r+1 with its counter at the
\* reset value: no staged line leaves the detector in a round that matched
\* it, and a line promoted in the latest round has observed = 5.
C17_StagedThenMatchedIsConfirmed ==
    /\ \A d \in dropped : d.tier = "staged" => d.last < d.at
    /\ \A i \in 1..Len(lines) :
          lines[i].conf = rounds =>
              /\ lines[i].last = rounds
              /\ lines[i].born = rounds - 1
              /\ lines[i].observed = observationLimit

\* a line staged in the round before the latest has just been promoted
C17_Witness ==
    \E i \in 1..Len(lines) :
        /\ lines[i].conf = rounds /\ lines[i].born = rounds - 1
        /\ lines[i].observed = observationLimit

\* C18: a confirmed line that no detection matches loses 1 of its counter
\* per round, starting from 5 in the last round that matched it; it is in
\* the confirmed set after each of the first 4 unmatched rounds and is
\* dropped in the 5th.
C18_ConfirmedDecaysInFive ==
    /\ \A i \in 1..Len(lines) :
          /\ rounds - lines[i].last <= observationLimit - 1
          /\ lines[i].observed = observationLimit - (rounds - lines[i].last)
    /\ \A d \in dropped : d.tier = "confirmed" => d.at - d.last = observationLimit

\* a confirmed line was dropped in its 5th unmatched round
C18_Witness ==
    \E d \in dropped : d.tier = "confirmed" /\ d.at = d.last + observationLimit

\* C19: a line that was confirmed before a round and is matched by a
\* detection in that round is in the confirmed set after it with its counter
\* at the reset value, whether the stored or the detected line was kept.
C19_RedetectedNeverDecays ==
    /\ \A d \in dropped : d.tier = "confirmed" => d.last < d.at
    /\ \A i \in 1..Len(lines) :
          (lines[i].conf < rounds /\ lines[i].last = rounds) =>
              /\ lines[i].observed = observationLimit
              /\ lines[i].detected

\* a line confirmed at least three rounds ago has just been matched by a
\* longer detection, which replaced it
C19_Witness ==
    \E i \in 1..Len(lines) :
        /\ lines[i].conf > 0 /\ lines[i].conf + 3 <= rounds
        /\ lines[i].last = rounds /\ lines[i].swapped
        /\ lines[i].observed = observationLimit

\* C20 (as claimed): a line detected in one round and never again is dropped
\* after exactly 5 further rounds.
C20_DetectedOnceDroppedAfterFive ==
    \A d \in dropped : d.born = d.last => d.at = d.last + observationLimit

\* C20 (amended): a line detected in one round and never again is held as a
\* staged line only, never in the confirmed set, and is dropped in the first
\* further round.
C20_DetectedOnceDroppedNextRound ==
    /\ \A d \in dropped :
          d.born = d.last => (d.tier = "staged" /\ d.at = d.last + 1)
    /\ \A i \in 1..Len(stagedLines) :
          stagedLines[i].born = rounds /\ stagedLines[i].last = rounds
    /\ \A i \in 1..Len(lines) : lines[i].born < lines[i].last

\* one line was detected in round 1, nothing was detected in the 5 rounds
\* after it, and the line has been gone since round 2
C20_Witness ==
    /\ rounds = 1 + observationLimit
    /\ lines = <<>> /\ stagedLines = <<>>
    /\ dropped = {[tier |-> "staged", born |-> 1, last |-> 1, at |-> 2]}

(***************************************************************************)
(* Claims about connectivity and track(), checked under SpecConnect        *)
(***************************************************************************)
TrackedKeys == {Key(tracking[i]) : i \in 1..Len(tracking)}

\* C11: no connectedToPrimary or connectedToSecondary list holds the
\* (id, label) of an object that is not in the tracked set.
C11_NoDanglingConnections ==
    \A i \in 1..Len(tracking) :
        /\ Range(tracking[i].connectedToPrimary) \subseteq TrackedKeys
        /\ Range(tracking[i].connectedToSecondary) \subseteq TrackedKeys

\* a tick has deleted the object at RectC, which went through two ageing
\* passes, while the object at RectA stays and the line between them is
\* confirmed
C11_Witness ==
    /\ tcall.op = "process_frame"
    /\ \E i \in 1..Len(removed) : removed[i].brect = RectC /\ removed[i].aged = 2
    /\ \E j \in 1..Len(tracking) : tracking[j].brect = RectA
    /\ \E k \in 1..Len(lines) : lines[k].endpoints = Lca

\* C12: in one tick a line establishes at most one connection, so the
\* connections of a tick are no more than the confirmed lines.
C12_OneConnectionPerLine ==
    /\ \A p \in 1..Len(connections), q \in 1..Len(connections) :
          p # q => connections[p].line # connections[q].line
    /\ \A p \in 1..Len(connections) :
          /\ connections[p].line \in 1..connections[p].nlines
          /\ Len(connections) <= connections[p].nlines

\* a tick with three confirmed lines established a link and a source mark
C12_Witness ==
    /\ Len(connections) = 2
    /\ connections[1].kind = "link" /\ connections[2].kind = "source"
    /\ connections[1].nlines = 3

\* the tracked object with the key k
ObjectOf(k) == CHOOSE i \in 1..Len(tracking) : Key(tracking[i]) = k

\* C13: of two linked objects the one with the larger unscaled x (on equal x
\* the smaller y) is the primary: it has the other in connectedToPrimary and
\* the other has it in connectedToSecondary, whichever was visited first.
C13_LargerXIsPrimary ==
    \A p \in 1..Len(connections) :
        connections[p].kind = "link" =>
            LET e == connections[p]
                other == IF e.primary = e.a THEN e.b ELSE e.a
                cp == IF e.primary = e.a THEN e.ca ELSE e.cb
                co == IF e.primary = e.a THEN e.cb ELSE e.ca
            IN  /\ cp[1] > co[1] \/ (cp[1] = co[1] /\ cp[2] < co[2])
                /\ e.primary \in TrackedKeys /\ other \in TrackedKeys
                /\ other \in Range(tracking[ObjectOf(e.primary)].connectedToPrimary)
                /\ e.primary \in Range(tracking[ObjectOf(other)].connectedToSecondary)

\* two objects with the same x were linked from the lower one, and the upper
\* one, visited second, was made the primary
C13_Witness ==
    \E p \in 1..Len(connections) :
        /\ connections[p].kind = "link"
        /\ connections[p].ca[1] = connections[p].cb[1]
        /\ connections[p].cb[2] < connections[p].ca[2]
        /\ connections[p].primary = connections[p].b

\* the cosine of the angle between the directions v and w of two slopes is
\* at least cos(pi/6)
WithinPiOverSix(v, w) ==
    /\ v[2] * w[2] + v[1] * w[1] >= 0
    /\ 4 * (v[2] * w[2] + v[1] * w[1]) * (v[2] * w[2] + v[1] * w[1])
          >= 3 * (v[1] * v[1] + v[2] * v[2]) * (w[1] * w[1] + w[2] * w[2])

\* C14: two objects are linked through a line only if the line's angle and
\* the angle of the segment joining their centers differ by less than pi/6
\* and the far endpoint is within [dist_th_lower, dist_th_upper] of the
\* second object's center.
C14_LinkedOnlyWithinAngle ==
    \A p \in 1..Len(connections) :
        connections[p].kind = "link" =>
            LET e == connections[p]
            IN  /\ WithinPiOverSix(e.slope, line_from_endpoints(<<e.ca, e.cb>>).slope)
                /\ distance_pts_sq(<<e.cb, e.far>>) >= dist_th_lower * dist_th_lower
                /\ distance_pts_sq(<<e.cb, e.far>>) <= dist_th_upper * dist_th_upper

\* a tick ran with the line Lad confirmed and the objects at RectA and RectD
\* the only ones tracked: the line starts at RectA and ends within the
\* distance bounds of RectD, the segment between them is more than pi/6 off
\* the line, and nothing was linked
C14_Witness ==
    /\ tcall.op = "process_frame" /\ tcall.nlines = 2
    /\ Len(lines) = 2 /\ lines[1].endpoints = Lad
    /\ Len(tracking) = 2
    /\ \E i \in 1..Len(tracking), j \in 1..Len(tracking) :
          /\ tracking[i].brect = RectA /\ tracking[i].linked
          /\ tracking[j].brect = RectD /\ tracking[j].linked
    /\ connections = <<>>

\* C15: track() creates an object only when no tracked object has the name
\* label-id and none has a rectangle that intersects the given one;
\* otherwise it creates nothing, sets the matched object's counter to
\* ticks_per_obs and returns False.  No two tracked objects have the same
\* name.
C15_TrackCreatesOnlyWhenNew ==
    /\ \A i \in 1..Len(tracking), j \in 1..Len(tracking) :
          i # j => /\ tracking[i].name # tracking[j].name
                   /\ Key(tracking[i]) # Key(tracking[j])
    /\ tcall.op = "track" =>
          IF tcall.result
          THEN /\ Len(tracking) = tcall.before + 1
               /\ Key(tracking[Len(tracking)]) = <<tcall.id, tcall.label>>
               /\ tracking[Len(tracking)].name = ComposedName(tcall.label, tcall.id)
               /\ \A i \in 1..tcall.before :
                     /\ tracking[i].name # ComposedName(tcall.label, tcall.id)
                     /\ ~intersecting_rects(tracking[i].brect, tcall.brect)
          ELSE /\ Len(tracking) = tcall.before
               /\ tcall.matched \in 1..Len(tracking)
               /\ tracking[tcall.matched].observed = ticks_per_obs

\* track() was called with a new name and a rectangle that intersects the
\* one of a tracked object: it returned False and refreshed that object
C15_Witness ==
    /\ tcall.op = "track" /\ ~tcall.result
    /\ tracking[tcall.matched].name # ComposedName(tcall.label, tcall.id)
    /\ tracking[tcall.matched].observed = ticks_per_obs
    /\ ticks > 0

\* the sequence s holds no value twice
NoRepeats(s) == \A p, q \in 1..Len(s) : s[p] = s[q] => p = q

\* C38: after a tracker tick, B's (id, label) is in A.connectedToPrimary
\* exactly when A's is in B.connectedToSecondary, no object is in a list of
\* its own, and no two objects were linked twice in the tick: no list names
\* an object twice, none names an object that the other list names, and no
\* two connections of the tick join the same two objects.
C38_SymmetricIrreflexive ==
    tcall.op = "process_frame" =>
        /\ \A i, j \in 1..Len(tracking) :
               Key(tracking[j]) \in Range(tracking[i].connectedToPrimary)
                  <=> Key(tracking[i]) \in Range(tracking[j].connectedToSecondary)
        /\ \A i \in 1..Len(tracking) :
               /\ Key(tracking[i]) \notin Range(tracking[i].connectedToPrimary)
               /\ Key(tracking[i]) \notin Range(tracking[i].connectedToSecondary)
               /\ NoRepeats(tracking[i].connectedToPrimary)
               /\ NoRepeats(tracking[i].connectedToSecondary)
               /\ Range(tracking[i].connectedToPrimary)
                     \cap Range(tracking[i].connectedToSecondary) = {}
        /\ \A p, q \in 1..Len(connections) :
               (/\ connections[p].kind = "link" /\ connections[q].kind = "link"
                /\ {connections[p].a, connections[p].b} = {connections[q].a, connections[q].b})
                  => p = q

\* a tick ran with two confirmed lines that both join the objects at RectA
\* and RectD: it linked the two objects once
C38_Witness ==
    /\ tcall.op = "process_frame" /\ Len(lines) = 3
    /\ lines[1].endpoints = Lda /\ lines[3].endpoints = Ldb
    /\ Cardinality({p \in 1..Len(connections) : connections[p].kind = "link"}) = 1
    /\ \E i, j \in 1..Len(tracking) :
          /\ tracking[i].brect = RectA /\ tracking[j].brect = RectD
          /\ tracking[i].connectedToSecondary = <<Key(tracking[j])>>
          /\ tracking[j].connectedToPrimary = <<Key(tracking[i])>>

(***************************************************************************)
(* Claims about the BackgroundProcessor, checked under SpecBackground      *)
(***************************************************************************)
\* C29: after one or more identical frames of value V the background is V;
\* after an even number of folded frames that alternate between A and B it
\* is floor((A+B)/2); and after a process_frame call of an unpaused
\* processor count is the number of frames folded since the last reset and
\* background = floor(accumulator / max(1, count)).
C29_BackgroundIsMean ==
    /\ (bhist.seen >= 1 /\ bhist.same \in FrameValues) => bg.background = bhist.same
    /\ (/\ bhist.folded >= 2 /\ bhist.folded % 2 = 0
        /\ bhist.alt[1] \in FrameValues /\ bhist.alt[2] \in FrameValues)
          => bg.background = (bhist.alt[1] + bhist.alt[2]) \div 2
    /\ (bcall = "process_frame" /\ ~bg.paused)
          => /\ bg.count = bhist.folded
             /\ bg.background = Mean(bg.avg_background, bg.count)

\* what a process_frame step of a paused processor that has its accumulator
\* leaves alone, and what reset() does to count and the accumulator
PausedFoldsNothing ==
    /\ (bcall' = "process_frame" /\ bg.paused /\ bg.avg_background # NoArray)
          => /\ bg'.count = bg.count
             /\ bg'.avg_background = bg.avg_background
             /\ bg'.background = bg.background
    /\ bcall' = "reset" => bg'.count = 0 /\ bg'.avg_background = NoArray
    /\ (bcall' = "process_frame" /\ bg.avg_background = NoArray)
          => /\ bg'.avg_background # NoArray
             /\ bg.paused => bg'.avg_background = <<0, 0>>

\* C36 as stated: while the processor is paused, process_frame on a frame
\* after the first leaves count, the accumulator and the background
\* unchanged; only play() and pause() change whether frames are folded; and
\* reset() sets count to 0 and clears the accumulator, which the next frame
\* initialises again.
C36_OnlyPlayAndPauseToggle ==
    [][/\ PausedFoldsNothing
       /\ bg'.paused # bg.paused => bcall' \in {"play", "pause"}]_vars

\* C36, amended: the same, but reset() changes whether frames are folded as
\* well: it leaves the processor unpaused.
C36_PlayPauseAndResetToggle ==
    [][/\ PausedFoldsNothing
       /\ bg'.paused # bg.paused => bcall' \in {"play", "pause", "reset"}
       /\ bcall' = "reset" => ~bg'.paused]_vars

\* a paused processor that was given a second frame, after a reset() of a
\* paused processor
C36_Witness ==
    /\ bcall = "process_frame" /\ bg.paused /\ bhist.seen >= 2
    /\ bhist.reset /\ bg.count >= 1

\* what holds of every BackgroundProcessor: it is paused when constructed,
\* and reset() leaves it unpaused
PausedAtFirst ==
    /\ (bcall = "init" /\ ~bhist.played) => bg.paused
    /\ bcall = "reset" => ~bg.paused

\* C39 as stated: a newly constructed processor is paused; until play() is
\* called no frame is folded (count is 0) and the background is the first
\* frame seen, whatever the constructor was given; reset() leaves the
\* processor unpaused.
C39_NothingFoldedBeforePlay ==
    /\ PausedAtFirst
    /\ ~bhist.played => bg.count = 0
    /\ (~bhist.played /\ bhist.first # None) => bg.background = bhist.first

\* C39, amended: until play() or reset() is called.
C39_NothingFoldedBeforePlayOrReset ==
    /\ PausedAtFirst
    /\ (~bhist.played /\ ~bhist.reset) => bg.count = 0
    /\ (~bhist.played /\ ~bhist.reset /\ bhist.first # None)
          => bg.background = bhist.first

\* a processor that was given two different frames and then paused again
\* before any play() or reset()
C39_Witness ==
    /\ ~bhist.played /\ ~bhist.reset /\ bhist.fed >= 2 /\ bhist.same = Mixed
    /\ bg.background = bhist.first /\ bcall = "pause"

(***************************************************************************)
(* Claims about utils.intersecting, checked under SpecIntersecting         *)
(***************************************************************************)
\* the unit cells of the pixel grid that the rectangle r covers
Cells(r) == {<<x, y>> : x \in r[1]..(r[1] + r[3] - 1), y \in r[2]..(r[2] + r[4] - 1)}

\* C30: intersecting(a, b, threshold) is true exactly when the rectangles
\* overlap and overlap area / min(area(a), area(b)) > threshold; it is false
\* for (0,0,10,10), (5,5,10,10) and 0.25, whose ratio is exactly 0.25, and
\* for rectangles that only touch or have no area; and it is the same for
\* (a, b) and (b, a).
C30_IntersectingIffRatioExceeds ==
    icall.op = "intersecting" =>
        LET overlap == Cardinality(Cells(icall.a) \cap Cells(icall.b))
            smaller == Min(Cardinality(Cells(icall.a)), Cardinality(Cells(icall.b)))
        IN  /\ icall.result <=>
                  /\ overlap > 0
                  /\ overlap * icall.threshold[2] > icall.threshold[1] * smaller
            /\ overlap = 0 => ~icall.result
            /\ icall.result = intersecting(icall.b, icall.a, icall.threshold)
            /\ (/\ icall.a = <<0, 0, 10, 10>> /\ icall.b = <<5, 5, 10, 10>>
                /\ icall.threshold = DefaultThreshold) => ~icall.result

\* the call with (0,0,10,10), (5,5,10,10) and 0.25 returned False
C30_Witness ==
    /\ icall.op = "intersecting"
    /\ icall.a = <<0, 0, 10, 10>> /\ icall.b = <<5, 5, 10, 10>>
    /\ icall.threshold = DefaultThreshold
    /\ ~icall.result

\* C27: the snapshot file changes only by a write, a write is made only by
\* pause() or by a process_frame that ends a round, and only in a state
\* where fit < 0.001 and fit < initial_fit; what is written is the entry of
\* the current '<width>x<height>' key, every other entry staying as it was.
C27_WrittenOnlyThroughGate ==
    /\ cfile /= ccall.before => ccall.wrote
    /\ ccall.wrote =>
          /\ ccall.op = "pause" \/ (ccall.op = "process_frame" /\ ccall.round)
          /\ cal.fit < 10 /\ cal.fit < cal.initial_fit
          /\ DOMAIN cfile = DOMAIN ccall.before \cup {ResKey(FrameW, FrameH)}
          /\ cfile[ResKey(FrameW, FrameH)] = SubData(cal)
          /\ \A k \in DOMAIN ccall.before :
                 k /= ResKey(FrameW, FrameH) => cfile[k] = ccall.before[k]
    /\ (ccall.op = "pause" \/ (ccall.op = "process_frame" /\ ccall.round))
          /\ ~(cal.fit < 10 /\ cal.fit < cal.initial_fit)
       => cfile = ccall.before

C27_Witness ==
    /\ ccall.op = "pause" /\ ccall.wrote
    /\ DOMAIN cfile = {ResKey(640, 480), ResKey(FrameW, FrameH)}
    /\ cfile[ResKey(FrameW, FrameH)].fit = 5

\* C28, as stated: the best transform is replaced exactly at the refits
\* whose fit is lower than the fit of every earlier refit since the reset,
\* so that the refits 0.5, 0.2, 0.3, 0.05 take it at the first, the second
\* and the fourth.
C28_BestAtEveryImprovement ==
    /\ ccall.op = "process_frame" /\ ccall.refit
       => (ccall.snapshot <=> (ccall.earlier = 0 \/ ccall.fit < ccall.lowest))
    /\ chist.example = Len(ExampleFits) => chist.taken = {1, 2, 4}

\* C28, amended: the best transform is replaced exactly at the refits whose
\* fit is below 0.01 and lower than the fit of every earlier refit since the
\* reset, and it is then the transform of that refit; the refits 0.5, 0.2,
\* 0.3, 0.05 never take it.
C28_BestAtImprovementBelowFloor ==
    /\ ccall.op = "process_frame" /\ ccall.refit
       => /\ ccall.snapshot <=>
                (ccall.fit < 100 /\ (ccall.earlier = 0 \/ ccall.fit < ccall.lowest))
          /\ ccall.snapshot =>
                /\ cal.best_fit = ccall.fit
                /\ cal.best_scaled_transform = cal.scaled_transform
                /\ cal.best_list = cal.transform
                /\ cal.best_inv_list = cal.transform
    /\ ccall.op = "process_frame" /\ ~ccall.refit => ~ccall.snapshot
    /\ chist.example = Len(ExampleFits) => chist.taken = {}

C28_Witness ==
    /\ ccall.op = "process_frame" /\ ccall.refit /\ ccall.snapshot
    /\ ccall.earlier = 2 /\ ccall.lowest = 90 /\ ccall.fit = 5
    /\ chist.taken = {1, 3}

\* the step leaves the transform, the scaled transform, the fit, the best fit
\* and the retained best transform and lists as they were
SameCalibration ==
    /\ cal'.transform = cal.transform
    /\ cal'.scaled_transform = cal.scaled_transform
    /\ cal'.fit = cal.fit
    /\ cal'.best_fit = cal.best_fit
    /\ cal'.best_scaled_transform = cal.best_scaled_transform
    /\ cal'.best_list = cal.best_list
    /\ cal'.best_inv_list = cal.best_inv_list

\* the step is a process_frame of a calibrating processor at the frame that
\* ends the period of the last index
RoundEndStep ==
    /\ ccall'.op = "process_frame" /\ cal.calibrate
    /\ cframe % (CalStay + CalDelay) = 0 /\ cal.index = CalN - 1

\* C32: a round that ends with fewer than 5 indices of nonzero count leaves
\* the transform, the scaled transform, the fit, the best fit and the
\* retained best transform and lists as they were, and writes nothing to the
\* snapshot file.
C32_TooFewPointsSkipsRefit ==
    [][(RoundEndStep /\ Cardinality({i \in 0..(CalN - 1) : cal.counts[i] > 0}) < 5)
          => SameCalibration /\ cfile' = cfile /\ ~ccall'.wrote]_vars

\* after a refit that produced a transform, a round ended with four of the
\* five indices observed and was skipped
C32_Witness ==
    /\ ccall.op = "process_frame" /\ ccall.round /\ ~ccall.refit
    /\ chist.refits >= 1 /\ cal.transform # Identity
    /\ cal.fit = 5000

\* C33 (as claimed): a refit in which the solver finds no homography leaves
\* the transform, the scaled transform, the fit, the best fit and the
\* retained best transform and lists as they were.
C33_NoSolutionSkipsRound ==
    [][(RoundEndStep /\ ccall'.refit /\ ~ccall'.solved) => SameCalibration]_vars

\* C34: the index is always in 0..N-1; a process_frame of a calibrating
\* processor advances it by 1 modulo N at the frames with
\* frame_ind mod (stay+delay) = 0 and at no other; a refit is triggered at
\* those of these frames at which the index was N-1 and at no other; a round
\* takes N * (stay+delay) calibrating frames; and a process_frame of a
\* processor that is not calibrating changes nothing.
C34_IndexAdvancesAtPeriodEnds ==
    [][/\ cal'.index \in 0..(CalN - 1)
       /\ chist'.span \in {0, CalN * (CalStay + CalDelay)}
       /\ ccall'.op = "process_frame" =>
             IF cal.calibrate
             THEN /\ cal'.index = IF cframe % (CalStay + CalDelay) = 0
                                  THEN (cal.index + 1) % CalN ELSE cal.index
                  /\ ccall'.round <=> (/\ cframe % (CalStay + CalDelay) = 0
                                       /\ cal.index = CalN - 1)
                  /\ ccall'.refit => ccall'.round
             ELSE cal' = cal /\ cfile' = cfile /\ ~ccall'.round]_vars

\* the second round has ended after a pause() and a play()
C34_Witness ==
    /\ ccall.op = "process_frame" /\ ccall.round /\ chist.done = 2
    /\ chist.calls = 3 /\ cal.calibrate /\ cal.index = 0
    /\ chist.span = CalN * (CalStay + CalDelay)

\* the counts of the indices other than the current one stay, and the count
\* of the current one grows by one observation at most
OneObservationAtMost ==
    (ccall'.op = "process_frame" /\ ~ccall'.round) =>
        /\ \A i \in 0..(CalN - 1) : i # cal.index => cal'.counts[i] = cal.counts[i]
        /\ cal'.counts[cal.index] \in {cal.counts[cal.index],
                                       cal.counts[cal.index] + OneCount}
        /\ cal'.counts[cal.index] # cal.counts[cal.index]
              => cal.calibrate /\ cframe % (CalStay + CalDelay) > CalDelay

\* C35 (as stated): over one observe window the count of the current index
\* grows by 1 at most, only the first observed segment being folded.
C35_OneObservationPerWindow ==
    [][OneObservationAtMost /\ chist'.folded <= 1]_vars

\* C35, amended: in each tick of an observe window only the first observed
\* segment is folded, so the count of the current index grows by 1 at most
\* in a tick and by the number of ticks of the window at most over the
\* window.
C35_OneObservationPerTick ==
    [][OneObservationAtMost /\ chist'.folded <= CalStay - 1]_vars

\* both ticks of a window folded an observation
C35_Witness ==
    /\ ccall.op = "process_frame" /\ chist.folded = 2
    /\ cal.counts[cal.index] = 2 * OneCount

\* C31 (as claimed): every image of the database has an id, which is 1 or
\* more and differs from the id of every other image of the database.
C31_TemplatesHaveDistinctIds ==
    /\ \A i \in 1..Len(imagedb.images) :
           HasAttr(imagedb.images[i], "id") /\ imagedb.images[i].id >= 1
    /\ \A i, j \in 1..Len(imagedb.images) :
           (/\ HasAttr(imagedb.images[i], "id") /\ HasAttr(imagedb.images[j], "id")
            /\ imagedb.images[i].id = imagedb.images[j].id) => i = j

\* C22: the Darkflow detection processor gives the objects it creates the
\* ids 1000, 1001, 1002, ... in the order of their creation; its counter is
\* 1000 plus the number of objects created, moves in a process_frame by the
\* number of objects that call created, is never 0 or 999, and no two
\* objects tracked at one time have the same id.
C22_IdsInCreationOrder ==
    /\ darkflow.id_i = 1000 + Len(darkflow.created)
    /\ \A k \in 1..Len(darkflow.created) : darkflow.created[k] = 1000 + (k - 1)
    /\ \A k \in 1..Len(darkflow.created) : darkflow.created[k] \notin {0, 999}
    /\ dfcall.op = "process_frame" => darkflow.id_i = dfcall.before + dfcall.made
    /\ \A i, j \in 1..Len(tracking) : tracking[i].id = tracking[j].id => i = j
    /\ \A i \in 1..Len(tracking) :
           \E k \in 1..Len(darkflow.created) : darkflow.created[k] = tracking[i].id

C22_Witness ==
    /\ dfcall.op = "process_frame" /\ dfcall.items = 2 /\ dfcall.made = 1
    /\ darkflow.id_i = 1003
    /\ Len(removed) > 0

\* C23: at no time are two identification passes of the Detection Processor
\* started and not yet finished.
C23_OnePassAtATime == Cardinality(InProgress(detector.queue)) <= 1

\* C24: an exception raised while a template is matched leaves the pass in
\* progress, and a processor that is not ready has a pass in progress, which
\* sets the readiness flag when it finishes.
C24_ExceptionsAbsorbed ==
    /\ dcall.op = "match" /\ dcall.raised /= ""
       => Len(detector.queue) = dcall.queued
    /\ ~detector.ready => InProgress(detector.queue) /= {}

\* C25: a match is recorded in the region's features, and track() is called
\* for it, only if it has more than 6 good matches, a homography and a score
\* above 0; any other match leaves the tracked objects as they were.
C25_AcceptedOnlyWithPositiveScore ==
    dcall.op = "match" =>
        /\ dcall.recorded \/ dcall.tracked
           => dcall.good > 6 /\ dcall.M /\ dcall.score > 0
        /\ ~(dcall.good > 6 /\ dcall.M /\ dcall.score > 0)
           => ~dcall.recorded /\ ~dcall.tracked /\ tracking = dcall.before

C25_Witness ==
    /\ dcall.op = "match" /\ dcall.recorded /\ dcall.tracked
    /\ dcall.good = 7 /\ dcall.score = 2
    /\ Len(tracking) = Len(dcall.before) + 1

\* C26: when a region's templates are done and several were accepted, the
\* feature kept for the region and the tracked object at the region's
\* rectangle carry the label and id of a template with the highest score.
C26_HighestScoringKept ==
    dcall.op = "match" /\ dcall.closed /\ Len(dcall.accepted) >= 2 =>
        \E b \in 1..Len(dcall.accepted) :
            /\ \A c \in 1..Len(dcall.accepted) :
                   dcall.accepted[c].score <= dcall.accepted[b].score
            /\ dcall.kept[1].label = dcall.accepted[b].label
            /\ dcall.kept[1].id = dcall.accepted[b].id
            /\ \E i \in 1..Len(tracking) :
                   /\ tracking[i].brect = dcall.rect
                   /\ tracking[i].label = dcall.accepted[b].label
                   /\ tracking[i].id = dcall.accepted[b].id

\* C21: with a dial reader attached, the objects the tracker exposes hold
\* exactly one object with id 999 and label 'conditions', the dial reader's,
\* and no other object with id 999; when no dial device was found at
\* construction its weight stays [initial value, 1], and every call on the
\* dial reader returns.
C21_OneConditionsObject ==
    /\ Cardinality({i \in 1..Len(ExposedObjects_withDial) :
                       /\ ExposedObjects_withDial[i].id = 999
                       /\ ExposedObjects_withDial[i].label = "conditions"}) = 1
    /\ \A i \in 1..Len(ExposedObjects_withDial) :
           ExposedObjects_withDial[i].id = 999 => i = 1
    /\ dial.handler = NoHandler => dial.objects[1].weight = <<300, 1>>
    /\ dlcall.returned

C21_Witness ==
    /\ dial.handler = NoHandler /\ dial.ticks = MaxDialTicks
    /\ dlcall.op = "process_frame" /\ dlcall.value = 800
    /\ Len(tracking) = 2

====
